---- MODULE Spec2Model ----
(***************************************************************************)
(* A model of gmdsl's load / validate pipeline.                            *)
(*                                                                         *)
(*   LoaderSpec     AstLoader.load and _load_recursive (loader.py), run on *)
(*                  a bounded family of file systems; the recursion is an  *)
(*                  explicit stack of frames.                              *)
(*   LoaderFairSpec LoaderSpec with weak fairness of its steps (the        *)
(*                  interpreter always executes the next statement).       *)
(*   ValidatorSpec  Validator.validate (validation.py) on the documents    *)
(*                  AstTransformer (parser.py) makes of a bounded family   *)
(*                  of texts: resolve types, collect definitions, check    *)
(*                  references.                                            *)
(*   ResolverSpec   AstLoader._resolve_import called on its own, over the  *)
(*                  placements of a module in three directories.           *)
(*   ParserSpec     AstTransformer called on its own: qualify_name on one  *)
(*                  name, and the transformation of a text of statements.  *)
(*   CliSpec        the generate command (cli.py) and run_generation       *)
(*                  (codegen.py): load, validate, generate, exit code.     *)
(*   ReuseSpec      one AstLoader and one Validator, each used for two     *)
(*                  runs on the same input.                                *)
(*   PermuteSpec    Validator.validate on a map of documents and on the    *)
(*                  same map with the declarations of a document permuted. *)
(***************************************************************************)
EXTENDS Integers, Sequences, FiniteSets, TLC

(***************************************************************************)
(* Bounds of the model.                                                    *)
(***************************************************************************)
\* number of import statements in all files of a file system together
MaxImportStatements == 3

Modules == {"A", "B", "C"}

\* The directory of the root file and one include directory.
SrcDir == "src"
LibDir == "lib"
Dirs == {SrcDir, LibDir}

\* An absolute path: <<directory, module>> stands for "<directory>/<module>.gm".
Paths == Dirs \X Modules

\* Python's None, where a path is expected
None == <<>>

SeqsUpTo(S, n) == UNION {[1..k -> S] : k \in 0..n}

(***************************************************************************)
(* The file system the loader runs on.  A file is missing, exists but      *)
(* cannot be read (open raises), is read but does not parse (parse_gmdsl   *)
(* raises), or parses into a Document with a list of imports.              *)
(***************************************************************************)
Missing == [kind |-> "missing", imports |-> <<>>]
Unreadable == [kind |-> "unreadable", imports |-> <<>>]
Malformed == [kind |-> "malformed", imports |-> <<>>]
Parsed(imps) == [kind |-> "ok", imports |-> imps]

FileContents ==
    {Missing, Unreadable, Malformed} \cup {Parsed(s) : s \in SeqsUpTo(Modules, MaxImportStatements)}

RECURSIVE SumOver(_, _)
SumOver(f, S) ==
    IF S = {} THEN 0
    ELSE LET x == CHOOSE y \in S : TRUE IN f[x] + SumOver(f, S \ {x})

\* the files of the root's directory: at most MaxImportStatements imports together
SrcTrees ==
    {s \in [Modules -> FileContents] :
        SumOver([m \in Modules |-> Len(s[m].imports)], Modules) <= MaxImportStatements}
\* the include directory holds at most one file, with at most one import
LibTrees ==
    {[m \in Modules |-> Missing]}
    \cup {[m \in Modules |-> IF m = x THEN c ELSE Missing] :
            x \in Modules, c \in {Parsed(s) : s \in SeqsUpTo(Modules, 1)}}

MkFs(s, l) == [p \in Paths |-> IF p[1] = SrcDir THEN s[p[2]] ELSE l[p[2]]]
FileSystems == {MkFs(s, l) : s \in SrcTrees, l \in LibTrees}

IncludePathChoices == {<<>>, <<LibDir>>}
Roots == {<<SrcDir, "A">>}

VARIABLES
    fs,             \* the files on disk (an input; never written)
    include_paths,  \* AstLoader.include_paths
    root,           \* the argument of the running load call
    loaded_asts,    \* AstLoader.loaded_asts: insertion-ordered dict, as a sequence of entries
    errors,         \* AstLoader.errors
    processing,     \* AstLoader.processing
    stack,          \* the activations of _load_recursive, innermost last
    pc,             \* "idle", "running", "done" (load returned) or "raised" (load raised)
    opened,         \* how often each path was opened for reading
    parsed,         \* how often parse_gmdsl ran on each path
    \* Validator.validate
    sources,              \* the source texts the documents were parsed from (an input)
    documents,            \* its argument loaded_asts: insertion-ordered dict path -> Document
    validation_errors,    \* Validator.errors
    defined_types,        \* Validator.defined_types
    defined_nodes,        \* Validator.defined_nodes
    defined_annotations,  \* Validator.defined_annotations
    vpc,                  \* "idle", "start", "collect", "check", "returned" or "raised"
    exception,            \* the exception validate raised, "" if none
    \* a single call of a function of the program
    call,                 \* the function called and its arguments (an input)
    outcome,              \* what the call returned, NoResult before it returns
    \* a run of the command line (cli.py) and of run_generation (codegen.py)
    cli_pc,               \* "idle", "start", "loaded", "generation", "generated" or "exited"
    invoked,              \* the phases and steps invoked so far, with how each ended
    propagated,           \* the exception that left run_generation, NoException if none
    exit_code             \* the exit code of the process, -1 while it runs

loader_vars == <<fs, include_paths, root, loaded_asts, errors, processing, stack, pc, opened, parsed>>
validator_vars ==
    <<sources, documents, validation_errors, defined_types, defined_nodes, defined_annotations, vpc, exception>>
function_vars == <<call, outcome>>
cli_vars == <<cli_pc, invoked, propagated, exit_code>>
vars == <<loader_vars, validator_vars, function_vars, cli_vars>>

(***************************************************************************)
(* os.path and dict helpers.                                               *)
(***************************************************************************)
exists(path) == path \in DOMAIN fs /\ fs[path].kind # "missing"
dirname(path) == path[1]
join(dir, module) == <<dir, module>>

\* an insertion-ordered dict is the sequence of its entries
Keys(d) == {d[i].key : i \in 1..Len(d)}
Get(d, key) == d[CHOOSE i \in 1..Len(d) : d[i].key = key].value
\* a dict that drops what is stored in it
DictSet_dropped(d, key, value) == d
\* d[key] = value
DictSet(d, key, value) ==
    IF key \in Keys(d)
    THEN [i \in 1..Len(d) |-> IF d[i].key = key THEN [key |-> key, value |-> value] ELSE d[i]]
    ELSE Append(d, [key |-> key, value |-> value])

LoadError(message, subject, source_path) ==
    [message |-> message, subject |-> subject, source_path |-> source_path]

\* the first include directory, from position i on, that holds module_name
RECURSIVE FirstInclude(_, _)
FirstInclude(module_name, i) ==
    IF i > Len(include_paths) THEN None
    ELSE IF exists(join(include_paths[i], module_name)) THEN join(include_paths[i], module_name)
    ELSE FirstInclude(module_name, i + 1)

\* a resolver that searches the include directories before the sibling file
_resolve_import_includes_first(module_name, importing_file_path) ==
    IF FirstInclude(module_name, 1) # None THEN FirstInclude(module_name, 1)
    ELSE IF exists(join(dirname(importing_file_path), module_name))
         THEN join(dirname(importing_file_path), module_name)
         ELSE None

\* AstLoader._resolve_import
_resolve_import(module_name, importing_file_path) ==
    LET potential_rel_path == join(dirname(importing_file_path), module_name)
    IN  IF exists(potential_rel_path) THEN potential_rel_path
        ELSE FirstInclude(module_name, 1)

\* a loader that forgets the already-loaded check
\* a loader that remembers every file it has tried to read, failed ones included
AlreadyLoaded_or_tried(file_path) == file_path \in Keys(loaded_asts) \/ opened[file_path] > 0
AlreadyLoaded_never(file_path) == FALSE
\* a loader that records a file in the result map only once its imports are walked
AlreadyLoaded_after_imports(file_path) == file_path \in Keys(loaded_asts) \ processing
\* `file_path in self.loaded_asts`, the first check of _load_recursive
AlreadyLoaded(file_path) == file_path \in Keys(loaded_asts)
\* `file_path in self.processing`, the second check
InProgress(file_path) == file_path \in processing

\* an activation of _load_recursive: its argument, where it is, and its local parsed_ast.imports
Frame(path) == [path |-> path, phase |-> "enter", imports |-> <<>>, idx |-> 1, failed |-> FALSE]
Top == stack[Len(stack)]
Pop == SubSeq(stack, 1, Len(stack) - 1)
ReplaceTop(f) == [stack EXCEPT ![Len(stack)] = f]

\* no single function call is part of a loader or validator run
NoCall == [op |-> "none"]
NoResult == [returned |-> FALSE]
FunctionIdle == call = NoCall /\ outcome = NoResult

\* no exception, and a command line that is not running
NoException == [type |-> "", origin |-> "", message |-> ""]
CliIdle == cli_pc = "idle" /\ invoked = <<>> /\ propagated = NoException /\ exit_code = -1

\* the validator is not part of a loader run
ValidatorIdle ==
    /\ sources = <<>>
    /\ documents = <<>>
    /\ validation_errors = <<>>
    /\ defined_types = <<>>
    /\ defined_nodes = <<>>
    /\ defined_annotations = <<>>
    /\ vpc = "idle"
    /\ exception = ""

Init ==
    /\ fs \in FileSystems
    /\ include_paths \in IncludePathChoices
    \* a directory that is not searched is never looked at: leave it empty
    /\ include_paths = <<>> => \A m \in Modules : fs[<<LibDir, m>>] = Missing
    /\ root = None
    /\ loaded_asts = <<>>
    /\ errors = <<>>
    /\ processing = {}
    /\ stack = <<>>
    /\ pc = "idle"
    /\ opened = [p \in Paths |-> 0]
    /\ parsed = [p \in Paths |-> 0]
    /\ ValidatorIdle
    /\ FunctionIdle
    /\ CliIdle

\* AstLoader.load, lines 68-73: reset the state, call _load_recursive(root)
Load(root_file_path) ==
    /\ pc = "idle"
    /\ root' = root_file_path
    /\ loaded_asts' = <<>>
    /\ errors' = <<>>
    /\ processing' = {}
    /\ stack' = <<Frame(root_file_path)>>
    /\ pc' = "running"
    /\ UNCHANGED <<fs, include_paths, opened, parsed>>
    /\ UNCHANGED <<validator_vars, function_vars, cli_vars>>

\* the exception of an inner activation reaches the caller: it is inside the
\* caller's try block, whose except clause records it after the import loop is left
Unwind(stk, raisedExc) ==
    IF ~raisedExc \/ stk = <<>> THEN stk
    ELSE [stk EXCEPT ![Len(stk)] = [@ EXCEPT !.failed = TRUE]]

\* a _load_recursive whose read or parse failure also ends the import loop of the
\* importing file
Enter_failure_reaches_importer ==
    /\ pc = "running"
    /\ stack # <<>>
    /\ Top.phase = "enter"
    /\ LET file_path == Top.path IN
        IF AlreadyLoaded(file_path) THEN
            /\ stack' = Pop
            /\ UNCHANGED <<loaded_asts, errors, processing, opened, parsed>>
        ELSE IF InProgress(file_path) THEN
            /\ errors' = Append(errors, LoadError("Circular import detected", file_path, file_path))
            /\ stack' = Pop
            /\ UNCHANGED <<loaded_asts, processing, opened, parsed>>
        ELSE IF ~exists(file_path) THEN
            /\ errors' = Append(errors, LoadError("File not found", file_path, file_path))
            /\ stack' = Pop
            /\ UNCHANGED <<loaded_asts, processing, opened, parsed>>
        ELSE
            /\ opened' = [opened EXCEPT ![file_path] = @ + 1]
            /\ IF fs[file_path].kind = "ok" THEN
                    /\ parsed' = [parsed EXCEPT ![file_path] = @ + 1]
                    /\ loaded_asts' = DictSet(loaded_asts, file_path, [source_path |-> file_path, imports |-> fs[file_path].imports])
                    /\ processing' = processing \cup {file_path}
                    /\ stack' = ReplaceTop([Top EXCEPT !.phase = "imports", !.imports = fs[file_path].imports])
                    /\ UNCHANGED errors
               ELSE
                    \* open or parse_gmdsl raised: except clause, then finally
                    /\ parsed' = IF fs[file_path].kind = "malformed"
                                 THEN [parsed EXCEPT ![file_path] = @ + 1] ELSE parsed
                    /\ errors' = Append(errors, LoadError("Error processing file", fs[file_path].kind, file_path))
                    \* added at line 99, removed again by the finally clause
                    /\ processing' = (processing \cup {file_path}) \ {file_path}
                    /\ stack' = Unwind(Pop, TRUE)
                    /\ UNCHANGED loaded_asts
    /\ UNCHANGED <<fs, include_paths, root, pc>>
    /\ UNCHANGED <<validator_vars, function_vars, cli_vars>>

\* _load_recursive, lines 85-106: the checks, then open, read, parse and record
Enter ==
    /\ pc = "running"
    /\ stack # <<>>
    /\ Top.phase = "enter"
    /\ LET file_path == Top.path IN
        IF AlreadyLoaded(file_path) THEN
            /\ stack' = Pop
            /\ UNCHANGED <<loaded_asts, errors, processing, opened, parsed>>
        ELSE IF InProgress(file_path) THEN
            /\ errors' = Append(errors, LoadError("Circular import detected", file_path, file_path))
            /\ stack' = Pop
            /\ UNCHANGED <<loaded_asts, processing, opened, parsed>>
        ELSE IF ~exists(file_path) THEN
            /\ errors' = Append(errors, LoadError("File not found", file_path, file_path))
            /\ stack' = Pop
            /\ UNCHANGED <<loaded_asts, processing, opened, parsed>>
        ELSE
            /\ opened' = [opened EXCEPT ![file_path] = @ + 1]
            /\ IF fs[file_path].kind = "ok" THEN
                    /\ parsed' = [parsed EXCEPT ![file_path] = @ + 1]
                    /\ loaded_asts' = DictSet(loaded_asts, file_path, [source_path |-> file_path, imports |-> fs[file_path].imports])
                    /\ processing' = processing \cup {file_path}
                    /\ stack' = ReplaceTop([Top EXCEPT !.phase = "imports", !.imports = fs[file_path].imports])
                    /\ UNCHANGED errors
               ELSE
                    \* open or parse_gmdsl raised: except clause, then finally
                    /\ parsed' = IF fs[file_path].kind = "malformed"
                                 THEN [parsed EXCEPT ![file_path] = @ + 1] ELSE parsed
                    /\ errors' = Append(errors, LoadError("Error processing file", fs[file_path].kind, file_path))
                    \* added at line 99, removed again by the finally clause
                    /\ processing' = (processing \cup {file_path}) \ {file_path}
                    /\ stack' = Pop
                    /\ UNCHANGED loaded_asts
    /\ UNCHANGED <<fs, include_paths, root, pc>>
    /\ UNCHANGED <<validator_vars, function_vars, cli_vars>>

\* an import loop that an unresolvable import ends
ProcessImport_stops_at_unresolved ==
    /\ pc = "running"
    /\ stack # <<>>
    /\ Top.phase = "imports"
    /\ ~Top.failed
    /\ Top.idx <= Len(Top.imports)
    /\ LET file_path == Top.path
           imp == Top.imports[Top.idx]
           resolved_path == _resolve_import(imp, file_path)
       IN  IF resolved_path # None THEN
                /\ stack' = Append(ReplaceTop([Top EXCEPT !.idx = @ + 1]), Frame(resolved_path))
                /\ UNCHANGED errors
           ELSE
                /\ errors' = Append(errors, LoadError("Cannot resolve import", imp, file_path))
                /\ stack' = ReplaceTop([Top EXCEPT !.idx = Len(Top.imports) + 1])
    /\ UNCHANGED <<fs, include_paths, root, loaded_asts, processing, pc, opened, parsed>>
    /\ UNCHANGED <<validator_vars, function_vars, cli_vars>>

\* _load_recursive, lines 109-119: one iteration of the import loop
ProcessImport ==
    /\ pc = "running"
    /\ stack # <<>>
    /\ Top.phase = "imports"
    /\ ~Top.failed
    /\ Top.idx <= Len(Top.imports)
    /\ LET file_path == Top.path
           imp == Top.imports[Top.idx]
           resolved_path == _resolve_import(imp, file_path)
           advanced == ReplaceTop([Top EXCEPT !.idx = @ + 1])
       IN  IF resolved_path # None THEN
                /\ stack' = Append(advanced, Frame(resolved_path))
                /\ UNCHANGED errors
           ELSE
                /\ errors' = Append(errors, LoadError("Cannot resolve import", imp, file_path))
                /\ stack' = advanced
    /\ UNCHANGED <<fs, include_paths, root, loaded_asts, processing, pc, opened, parsed>>
    /\ UNCHANGED <<validator_vars, function_vars, cli_vars>>

\* _load_recursive, lines 121-125: the import loop is over (or an exception left
\* it): except clause if needed, then finally: self.processing.remove(file_path)
Leave ==
    /\ pc = "running"
    /\ stack # <<>>
    /\ Top.phase = "imports"
    /\ Top.failed \/ Top.idx > Len(Top.imports)
    /\ LET file_path == Top.path
           keyError == file_path \notin processing
       IN  /\ errors' = IF Top.failed
                        THEN Append(errors, LoadError("Error processing file", "exception", file_path))
                        ELSE errors
           /\ processing' = processing \ {file_path}
           /\ stack' = Unwind(Pop, keyError)
           /\ pc' = IF keyError /\ Pop = <<>> THEN "raised" ELSE pc
    /\ UNCHANGED <<fs, include_paths, root, loaded_asts, opened, parsed>>
    /\ UNCHANGED <<validator_vars, function_vars, cli_vars>>

\* AstLoader.load, lines 75-81: _load_recursive(root) returned; report and return
Return ==
    /\ pc = "running"
    /\ stack = <<>>
    /\ pc' = "done"
    /\ UNCHANGED <<fs, include_paths, root, loaded_asts, errors, processing, stack, opened, parsed>>
    /\ UNCHANGED <<validator_vars, function_vars, cli_vars>>

Next ==
    \/ \E r \in Roots : Load(r)
    \/ Enter
    \/ ProcessImport
    \/ Leave
    \/ Return

(***************************************************************************)
(* Python strings are sequences of one-character strings, so that split,   *)
(* lower, upper, capitalize and endswith are computed as Python computes   *)
(* them.                                                                   *)
(***************************************************************************)
UpperCase == <<"A", "B", "C", "D", "E", "F", "G", "H", "I", "J", "K", "L", "M",
               "N", "O", "P", "Q", "R", "S", "T", "U", "V", "W", "X", "Y", "Z">>
LowerCase == <<"a", "b", "c", "d", "e", "f", "g", "h", "i", "j", "k", "l", "m",
               "n", "o", "p", "q", "r", "s", "t", "u", "v", "w", "x", "y", "z">>

lower_char(c) ==
    IF \E i \in 1..Len(UpperCase) : UpperCase[i] = c
    THEN LowerCase[CHOOSE i \in 1..Len(UpperCase) : UpperCase[i] = c] ELSE c
upper_char(c) ==
    IF \E i \in 1..Len(LowerCase) : LowerCase[i] = c
    THEN UpperCase[CHOOSE i \in 1..Len(LowerCase) : LowerCase[i] = c] ELSE c

\* str.lower, str.upper, str.capitalize, str.endswith, `"." in s`
lower(s) == [i \in 1..Len(s) |-> lower_char(s[i])]
upper(s) == [i \in 1..Len(s) |-> upper_char(s[i])]
capitalize(s) == [i \in 1..Len(s) |-> IF i = 1 THEN upper_char(s[i]) ELSE lower_char(s[i])]
endswith(s, suffix) ==
    /\ Len(suffix) <= Len(s)
    /\ SubSeq(s, Len(s) - Len(suffix) + 1, Len(s)) = suffix
has_dot(s) == \E i \in 1..Len(s) : s[i] = "."

\* s.split("."): the pieces between the dots, empty pieces included
RECURSIVE split(_)
split(s) ==
    IF ~has_dot(s) THEN <<s>>
    ELSE LET i == CHOOSE k \in 1..Len(s) : s[k] = "." /\ \A j \in 1..(k - 1) : s[j] # "."
         IN  <<SubSeq(s, 1, i - 1)>> \o split(SubSeq(s, i + 1, Len(s)))

\* ".".join(parts)
RECURSIVE join_dots(_)
join_dots(parts) ==
    IF parts = <<>> THEN <<>>
    ELSE IF Len(parts) = 1 THEN parts[1]
    ELSE parts[1] \o <<".">> \o join_dots(Tail(parts))

RECURSIVE FoldLeft(_, _, _)
FoldLeft(Op(_, _), acc, s) ==
    IF s = <<>> THEN acc ELSE FoldLeft(Op, Op(acc, Head(s)), Tail(s))

Range(s) == {s[i] : i \in 1..Len(s)}

(***************************************************************************)
(* ast.py.  A name is a Python str or a QualifiedName; both occur where    *)
(* the code tests isinstance(x, ast.QualifiedName).                        *)
(***************************************************************************)
Str(chars) == [cls |-> "str", v |-> chars]
QualifiedName(parts) == [cls |-> "QualifiedName", v |-> parts]
IsQualifiedName(x) == x.cls = "QualifiedName"

\* QualifiedName.from_str
from_str(name) == IF name = <<>> THEN QualifiedName(<<>>) ELSE QualifiedName(split(name))
\* QualifiedName.__str__, and str(x) of a str
str(x) == IF IsQualifiedName(x) THEN join_dots(x.v) ELSE x.v
\* QualifiedName.simple_name
simple_name(q) == IF q.v # <<>> THEN q.v[Len(q.v)] ELSE <<>>

AnnotationParameter(name, type_name) == [name |-> name, type_name |-> type_name]
AnnotationUsage(name) == [name |-> name, args |-> <<>>]
PropertyDeclaration(name, type_name, annotations) ==
    [name |-> name, type_name |-> type_name, annotations |-> annotations]

NoName == QualifiedName(<<>>)
\* the four declaration classes share one record shape; `kind` is the class
TypeDeclaration(name, properties, annotations) ==
    [kind |-> "TypeDeclaration", name |-> name, properties |-> properties,
     annotations |-> annotations, source_node |-> NoName, target_node |-> NoName,
     direction |-> "", parameters |-> <<>>]
NodeDeclaration(name, properties, annotations) ==
    [kind |-> "NodeDeclaration", name |-> name, properties |-> properties,
     annotations |-> annotations, source_node |-> NoName, target_node |-> NoName,
     direction |-> "", parameters |-> <<>>]
EdgeDeclaration(name, source_node, target_node, direction, properties, annotations) ==
    [kind |-> "EdgeDeclaration", name |-> name, properties |-> properties,
     annotations |-> annotations, source_node |-> source_node, target_node |-> target_node,
     direction |-> direction, parameters |-> <<>>]
AnnotationDeclaration(name, parameters) ==
    [kind |-> "AnnotationDeclaration", name |-> name, properties |-> <<>>,
     annotations |-> <<>>, source_node |-> NoName, target_node |-> NoName,
     direction |-> "", parameters |-> parameters]

\* hasattr(decl, "name") and hasattr(decl, "properties")
HasProperties(decl) == decl.kind \in {"TypeDeclaration", "NodeDeclaration", "EdgeDeclaration"}

\* Document; namespace is None or the QualifiedName of its NamespaceDeclaration
NoNamespace == [cls |-> "None", v |-> <<>>]
Document(namespace, imports, declarations) ==
    [namespace |-> namespace, imports |-> imports, declarations |-> declarations]

(***************************************************************************)
(* parser.py: how AstTransformer turns the names as written into the names *)
(* of the Document.                                                        *)
(***************************************************************************)
\* a qualify_name that puts the namespace before whatever it is given
qualify_name_always_prefixes(current_namespace, name) ==
    IF current_namespace # NoNamespace
    THEN QualifiedName(current_namespace.v \o (IF IsQualifiedName(name) THEN name.v ELSE split(name.v)))
    ELSE IF IsQualifiedName(name) THEN name ELSE from_str(name.v)

\* AstTransformer.qualify_name under the current namespace (NoNamespace: none set)
qualify_name(current_namespace, name) ==
    IF IsQualifiedName(name) THEN name
    ELSE IF current_namespace # NoNamespace /\ ~has_dot(name.v)
         THEN QualifiedName(current_namespace.v \o <<name.v>>)
         ELSE from_str(name.v)

\* AstTransformer.annotation_usage
annotation_usage(ns, name) == AnnotationUsage(qualify_name(ns, name))
\* AstTransformer.property_decl: the type is kept as written
property_decl(ns, w) ==
    PropertyDeclaration(w.name, w.type_name,
                        [i \in 1..Len(w.annotations) |-> annotation_usage(ns, w.annotations[i])])

\* AstTransformer.type_decl, node_decl, edge_decl, annotation_decl on a written
\* declaration w (names as the grammar hands them over)
transform_decl(ns, w) ==
    LET props == [i \in 1..Len(w.properties) |-> property_decl(ns, w.properties[i])]
        annos == [i \in 1..Len(w.annotations) |-> annotation_usage(ns, w.annotations[i])]
    IN  CASE w.kind = "type" -> TypeDeclaration(qualify_name(ns, w.name), props, annos)
          [] w.kind = "node" -> NodeDeclaration(qualify_name(ns, w.name), props, annos)
          [] w.kind = "edge" ->
                EdgeDeclaration(qualify_name(ns, w.name), qualify_name(ns, w.source_node),
                                qualify_name(ns, w.target_node), "->", props, annos)
          [] w.kind = "annotation" ->
                AnnotationDeclaration(qualify_name(ns, w.name),
                    [i \in 1..Len(w.parameters) |->
                        AnnotationParameter(w.parameters[i].name,
                                            qualify_name(ns, w.parameters[i].type_name))])

\* AstTransformer.document for a text whose namespace statement, if any, comes first
parse_gmdsl(w) ==
    Document(w.namespace,
             [i \in 1..Len(w.imports) |-> w.imports[i]],
             [i \in 1..Len(w.declarations) |-> transform_decl(w.namespace, w.declarations[i])])

\* Python's None and a list, as values an item of edge_decl may be
PyNone == [cls |-> "NoneType"]
PyList(items) == [cls |-> "list", items |-> items]

\* edge_decl's _flatten_first: the first item of the nested lists, None when a
\* list on the way is empty
RECURSIVE _flatten_first(_)
_flatten_first(item) ==
    IF item.cls = "list"
    THEN IF item.items = <<>> THEN PyNone ELSE _flatten_first(item.items[1])
    ELSE item

Raises(exc) == [returned |-> FALSE, raised |-> exc]
Returns(value) == [returned |-> TRUE, value |-> value]

\* AstTransformer.qualify_name on a name that may be None: with a namespace set
\* `"." not in None` raises TypeError; with none set the test is short-circuited
\* and QualifiedName.from_str(None) is the QualifiedName without parts
qualify_name_call(current_namespace, name) ==
    IF name = PyNone
    THEN IF current_namespace # NoNamespace THEN Raises("TypeError")
         ELSE Returns(QualifiedName(<<>>))
    ELSE Returns(qualify_name(current_namespace, name))

\* AstTransformer.edge_decl on a name, a source item, "->" and a target item
edge_decl(current_namespace, name, source_item, target_item) ==
    LET qualified_name == qualify_name_call(current_namespace, name)
        qualified_source == qualify_name_call(current_namespace, _flatten_first(source_item))
        qualified_target == qualify_name_call(current_namespace, _flatten_first(target_item))
    IN  IF ~qualified_name.returned THEN qualified_name
        ELSE IF ~qualified_source.returned THEN qualified_source
        ELSE IF ~qualified_target.returned THEN qualified_target
        ELSE Returns(EdgeDeclaration(qualified_name.value, qualified_source.value,
                                     qualified_target.value, "->", <<>>, <<>>))

\* The statements of a text, in the order written.  grammar.lark hands a name
\* written without a dot over as a str (IDENTIFIER) and a dotted name as a
\* QualifiedName (qualified_name); the name of a namespace statement is always a
\* QualifiedName.
name_token(chars) == IF has_dot(chars) THEN QualifiedName(split(chars)) ELSE Str(chars)
TNamespace(chars) == [stmt |-> "namespace", name |-> QualifiedName(split(chars))]
TImport(chars) == [stmt |-> "import", module_name |-> name_token(chars)]
TDeclaration(w) == [stmt |-> "declaration", decl |-> w]

\* AstTransformer.import_decl
import_decl(module_name) ==
    IF IsQualifiedName(module_name) THEN module_name ELSE from_str(module_name.v)

\* AstTransformer.namespace_decl and AstTransformer.document over the statements
\* of a text: each declaration is transformed under the namespace current when it
\* is reached; `warnings` counts the "Multiple namespace declarations" lines printed
document(text) ==
    FoldLeft(LAMBDA acc, item :
                CASE item.stmt = "namespace" ->
                        [acc EXCEPT !.warnings = IF acc.namespace # NoNamespace THEN @ + 1 ELSE @,
                                    !.namespace = item.name,
                                    !.current_namespace = item.name]
                  [] item.stmt = "import" ->
                        [acc EXCEPT !.imports = Append(@, import_decl(item.module_name))]
                  [] OTHER ->
                        [acc EXCEPT !.declarations =
                            Append(@, transform_decl(acc.current_namespace, item.decl))],
             [current_namespace |-> NoNamespace, namespace |-> NoNamespace,
              imports |-> <<>>, declarations |-> <<>>, warnings |-> 0],
             text)

(***************************************************************************)
(* validation.py                                                           *)
(***************************************************************************)
\* a dict with unordered use (only lookups): a function on its keys
EmptyMap == [k \in {} |-> k]
MapSet(m, key, value) == [k \in DOMAIN m \cup {key} |-> IF k = key THEN value ELSE m[k]]
\* m.update(other)
update(m, other) == [k \in DOMAIN m \cup DOMAIN other |-> IF k \in DOMAIN other THEN other[k] ELSE m[k]]

Values(d) == [i \in 1..Len(d) |-> d[i].value]

ValidationError(text, args, source_path) ==
    [message |-> [text |-> text, args |-> args], source_path |-> source_path]

\* _resolve_property_types, lines 25-35: namespace (and its last segment) -> the
\* names declared under it, by simple name
type_map_of(doc) ==
    FoldLeft(LAMBDA m, decl : IF HasProperties(decl)
                              THEN MapSet(m, simple_name(decl.name), decl.name) ELSE m,
             EmptyMap, doc.declarations)
ns_type_maps_of(docs) ==
    FoldLeft(LAMBDA maps, doc :
                LET ns == IF doc.namespace # NoNamespace THEN str(doc.namespace) ELSE <<>>
                    ns_suffix == split(ns)[Len(split(ns))]
                IN  IF ns # <<>>
                    THEN DictSet(DictSet(maps, ns_suffix, type_map_of(doc)), ns, type_map_of(doc))
                    ELSE maps,
             <<>>, docs)

\* _resolve_property_types, lines 38-55: the names the imports of doc bring in
import_type_map_of(doc, ns_type_maps) ==
    FoldLeft(LAMBDA m, imp :
                LET import_name == simple_name(imp)
                    variants == <<import_name, capitalize(import_name),
                                  lower(import_name), upper(import_name)>>
                    byVariant ==
                        FoldLeft(LAMBDA m1, ns_key :
                                    IF ns_key \in Keys(ns_type_maps)
                                    THEN update(m1, Get(ns_type_maps, ns_key)) ELSE m1,
                                 m, variants)
                IN  FoldLeft(LAMBDA m2, entry :
                                IF endswith(lower(entry.key), lower(import_name))
                                THEN update(m2, entry.value) ELSE m2,
                             byVariant, ns_type_maps),
             EmptyMap, doc.imports)

\* a resolution that puts every bare type under the namespace of its declaration
resolved_type_local_first(decl, prop, import_type_map) ==
    LET t == prop.type_name
    IN  IF ~IsQualifiedName(t) /\ t.cls = "str" /\ ~has_dot(t.v)
        THEN QualifiedName(SubSeq(decl.name.v, 1, Len(decl.name.v) - 1) \o <<t.v>>)
        ELSE t

\* _resolve_property_types, lines 61-72: the resolved type of one property
resolved_type(decl, prop, import_type_map) ==
    LET t == prop.type_name
    IN  IF ~IsQualifiedName(t) /\ t.cls = "str" /\ ~has_dot(t.v)
        THEN IF t.v \in DOMAIN import_type_map
             THEN import_type_map[t.v]
             ELSE QualifiedName(SubSeq(decl.name.v, 1, Len(decl.name.v) - 1) \o <<t.v>>)
        ELSE t

\* a replacement declaration built from the name and the properties alone
resolved_decl_without_annotations(decl, import_type_map) ==
    IF HasProperties(decl)
    THEN [decl EXCEPT !.annotations = <<>>,
                      !.properties =
            [i \in 1..Len(decl.properties) |->
                PropertyDeclaration(decl.properties[i].name,
                                    resolved_type(decl, decl.properties[i], import_type_map),
                                    <<>>)]]
    ELSE decl

\* _resolve_property_types, lines 57-99: the declaration that replaces decl
resolved_decl(decl, import_type_map) ==
    IF HasProperties(decl)
    THEN [decl EXCEPT !.properties =
            [i \in 1..Len(decl.properties) |->
                PropertyDeclaration(decl.properties[i].name,
                                    resolved_type(decl, decl.properties[i], import_type_map),
                                    decl.properties[i].annotations)]]
    ELSE decl

\* Validator._resolve_property_types on the dict of documents
_resolve_property_types(docs) ==
    LET ns_type_maps == ns_type_maps_of(Values(docs))
    IN  [i \in 1..Len(docs) |->
            [key |-> docs[i].key,
             value |-> [docs[i].value EXCEPT !.declarations =
                [j \in 1..Len(docs[i].value.declarations) |->
                    resolved_decl(docs[i].value.declarations[j],
                                  import_type_map_of(docs[i].value, ns_type_maps))]]]]

\* parts[0:n]
Prefix(parts, n) == SubSeq(parts, 1, IF n < Len(parts) THEN n ELSE Len(parts))

\* validate, lines 118-155: the key a declaration is filed under
def_name_of(doc, declaration) ==
    LET current_namespace == IF doc.namespace # NoNamespace THEN doc.namespace.v ELSE <<>>
        name == declaration.name.v
        is_local == \/ doc.namespace # NoNamespace /\ Prefix(name, Len(current_namespace)) = current_namespace
                    \/ doc.namespace = NoNamespace
        qualified_name ==
            IF /\ is_local
               /\ current_namespace # <<>>
               /\ name # <<>>
               /\ ~\E part \in Range(current_namespace) : part \in Range(SubSeq(name, 1, Len(name) - 1))
            THEN QualifiedName(current_namespace \o <<simple_name(declaration.name)>>)
            ELSE declaration.name
    IN  str(qualified_name)

\* a Validator whose tables take the latest declaration of a name
Define_last_wins(tables, declaration, def_name, doc_path) ==
    LET dup(text) == Append(tables.errors, ValidationError(text, <<def_name>>, doc_path))
    IN  CASE declaration.kind = "TypeDeclaration" ->
                IF def_name \in Keys(tables.types)
                THEN [tables EXCEPT !.errors = dup("Duplicate type definition"),
                                    !.types = DictSet(tables.types, def_name, declaration)]
                ELSE [tables EXCEPT !.types = DictSet(tables.types, def_name, declaration)]
          [] declaration.kind = "NodeDeclaration" ->
                IF def_name \in Keys(tables.nodes)
                THEN [tables EXCEPT !.errors = dup("Duplicate node definition"),
                                    !.nodes = DictSet(tables.nodes, def_name, declaration)]
                ELSE [tables EXCEPT !.nodes = DictSet(tables.nodes, def_name, declaration)]
          [] declaration.kind = "AnnotationDeclaration" ->
                IF def_name \in Keys(tables.annotations)
                THEN [tables EXCEPT !.errors = dup("Duplicate annotation definition"),
                                    !.annotations = DictSet(tables.annotations, def_name, declaration)]
                ELSE [tables EXCEPT !.annotations = DictSet(tables.annotations, def_name, declaration)]
          [] OTHER -> tables

\* validate, lines 157-177: file one declaration, or report it as a duplicate
Define(tables, declaration, def_name, doc_path) ==
    LET dup(text) == Append(tables.errors, ValidationError(text, <<def_name>>, doc_path))
    IN  CASE declaration.kind = "TypeDeclaration" ->
                IF def_name \in Keys(tables.types)
                THEN [tables EXCEPT !.errors = dup("Duplicate type definition")]
                ELSE [tables EXCEPT !.types = DictSet(tables.types, def_name, declaration)]
          [] declaration.kind = "NodeDeclaration" ->
                IF def_name \in Keys(tables.nodes)
                THEN [tables EXCEPT !.errors = dup("Duplicate node definition")]
                ELSE [tables EXCEPT !.nodes = DictSet(tables.nodes, def_name, declaration)]
          [] declaration.kind = "AnnotationDeclaration" ->
                IF def_name \in Keys(tables.annotations)
                THEN [tables EXCEPT !.errors = dup("Duplicate annotation definition")]
                ELSE [tables EXCEPT !.annotations = DictSet(tables.annotations, def_name, declaration)]
          [] OTHER -> tables

\* validate, lines 113-177: the first pass over all documents
collect_definitions(docs) ==
    FoldLeft(LAMBDA tables, entry :
                FoldLeft(LAMBDA t, declaration :
                            Define(t, declaration, def_name_of(entry.value, declaration), entry.key),
                         tables, entry.value.declarations),
             [errors |-> <<>>, types |-> <<>>, nodes |-> <<>>, annotations |-> <<>>], docs)

\* both spellings of a declaration's name, as the availability sets hold them
BothNames(decl) == {simple_name(decl.name), str(decl.name)}
NamesOf(decls, kind) ==
    UNION {BothNames(decls[i]) : i \in {j \in 1..Len(decls) : decls[j].kind = kind}}

\* Validator._get_available_types
_get_available_types(current_doc, all_docs) ==
    NamesOf(current_doc.declarations, "TypeDeclaration") \cup
    UNION {
        UNION {
            IF endswith(lower(IF all_docs[d].value.namespace # NoNamespace
                              THEN str(all_docs[d].value.namespace) ELSE <<>>),
                        lower(simple_name(current_doc.imports[i])))
            THEN NamesOf(all_docs[d].value.declarations, "TypeDeclaration")
            ELSE {}
            : d \in 1..Len(all_docs)}
        : i \in 1..Len(current_doc.imports)}

\* Validator._get_available_nodes
_get_available_nodes(current_doc) ==
    NamesOf(current_doc.declarations, "NodeDeclaration") \cup
    NamesOf(Values(defined_nodes), "NodeDeclaration")

\* Validator._get_available_annotations
_get_available_annotations(current_doc) ==
    NamesOf(current_doc.declarations, "AnnotationDeclaration") \cup
    NamesOf(Values(defined_annotations), "AnnotationDeclaration")

\* the type of a property or parameter, as the checks read it
AsQualifiedName(x) == IF IsQualifiedName(x) THEN x ELSE from_str(x.v)
IsAvailable(type_name, available) ==
    simple_name(AsQualifiedName(type_name)) \in available
        \/ str(AsQualifiedName(type_name)) \in available

\* a _validate_properties that walks the properties from the last to the first
_validate_properties_reversed(declaration, available_types, source_path) ==
    FoldLeft(LAMBDA errs, prop :
                IF IsAvailable(prop.type_name, available_types) THEN errs
                ELSE Append(errs, ValidationError("Unknown type",
                        <<str(AsQualifiedName(prop.type_name)), prop.name, str(declaration.name)>>,
                        source_path)),
             <<>>,
             [k \in 1..Len(declaration.properties) |->
                declaration.properties[Len(declaration.properties) + 1 - k]])

\* Validator._validate_properties: the errors it adds
_validate_properties(declaration, available_types, source_path) ==
    FoldLeft(LAMBDA errs, prop :
                IF IsAvailable(prop.type_name, available_types) THEN errs
                ELSE Append(errs, ValidationError("Unknown type",
                        <<str(AsQualifiedName(prop.type_name)), prop.name, str(declaration.name)>>,
                        source_path)),
             <<>>, declaration.properties)

\* Validator._validate_edge: the errors it adds
_validate_edge(edge, available_nodes, source_path) ==
    (IF str(edge.source_node) \notin available_nodes
     THEN <<ValidationError("Undefined source node", <<str(edge.source_node), str(edge.name)>>, source_path)>>
     ELSE <<>>)
    \o
    (IF str(edge.target_node) \notin available_nodes
     THEN <<ValidationError("Undefined target node", <<str(edge.target_node), str(edge.name)>>, source_path)>>
     ELSE <<>>)

\* Validator._validate_annotation_declaration: the errors it adds
_validate_annotation_declaration(annotation, available_types, source_path) ==
    FoldLeft(LAMBDA errs, param :
                IF IsAvailable(param.type_name, available_types) THEN errs
                ELSE Append(errs, ValidationError("Unknown type in annotation parameter",
                        <<str(AsQualifiedName(param.type_name)), param.name, str(annotation.name)>>,
                        source_path)),
             <<>>, annotation.parameters)

\* Validator._validate_annotations, the definition in force (lines 566-578, which
\* replaces the one of lines 355-375).  `usage.name not in available_annotations`
\* hashes usage.name: a QualifiedName holds a list and is unhashable (TypeError);
\* a name found in the set is then used as a subscript of that set (TypeError).
_validate_annotations(usages, available_annotations, source_path) ==
    FoldLeft(LAMBDA acc, usage :
                IF acc.raised # "" THEN acc
                ELSE IF IsQualifiedName(usage.name) THEN [acc EXCEPT !.raised = "TypeError"]
                ELSE IF usage.name.v \notin available_annotations
                     THEN [acc EXCEPT !.errors =
                            Append(@, ValidationError("Unknown annotation", <<usage.name.v>>, source_path))]
                     ELSE [acc EXCEPT !.raised = "TypeError"],
             [errors |-> <<>>, raised |-> ""], usages)

\* validate, lines 187-205: the checks of one declaration; acc is the error list
\* so far and the exception that ended the pass, if any
check_declaration(acc, declaration, available_types, available_nodes, available_annotations, doc_path) ==
    IF acc.raised # "" THEN acc
    ELSE
        LET checked == declaration.kind \in {"TypeDeclaration", "NodeDeclaration", "EdgeDeclaration"}
            props == IF checked THEN _validate_properties(declaration, available_types, doc_path) ELSE <<>>
            annos == IF checked
                     THEN _validate_annotations(declaration.annotations, available_annotations, doc_path)
                     ELSE [errors |-> <<>>, raised |-> ""]
            edge == IF declaration.kind = "EdgeDeclaration"
                    THEN _validate_edge(declaration, available_nodes, doc_path) ELSE <<>>
            params == IF declaration.kind = "AnnotationDeclaration"
                      THEN _validate_annotation_declaration(declaration, available_types, doc_path)
                      ELSE <<>>
        IN  IF annos.raised # ""
            THEN [errors |-> acc.errors \o props \o annos.errors, raised |-> annos.raised]
            ELSE [errors |-> acc.errors \o props \o annos.errors \o edge \o params, raised |-> ""]

\* validate, lines 180-205: the second pass over all documents
validate_references(docs, errs) ==
    FoldLeft(LAMBDA acc, entry :
                FoldLeft(LAMBDA a, declaration :
                            check_declaration(a, declaration,
                                              _get_available_types(entry.value, docs),
                                              _get_available_nodes(entry.value),
                                              _get_available_annotations(entry.value),
                                              entry.key),
                         acc, entry.value.declarations),
             [errors |-> errs, raised |-> ""], docs)

(***************************************************************************)
(* The documents validate runs on: what the parser makes of a bounded      *)
(* family of source texts.  A name is written bare (an identifier, a str)  *)
(* or dotted (a qualified_name, a QualifiedName).                          *)
(***************************************************************************)
\* most declarations of the main document
MaxDeclarations == 2

sFoo == <<"F", "o", "o">>
sBar == <<"B", "a", "r">>
sA == <<"A">>
sPoint == <<"P", "o", "i", "n", "t">>
sString == <<"S", "t", "r", "i", "n", "g">>
sPerson == <<"P", "e", "r", "s", "o", "n">>
sCompany == <<"C", "o", "m", "p", "a", "n", "y">>
sWorksAt == <<"W", "o", "r", "k", "s", "A", "t">>
sKey == <<"K", "e", "y">>
sHome == <<"h", "o", "m", "e">>
sLoc == <<"l", "o", "c">>

WProperty(name, type_name, annotations) ==
    [name |-> name, type_name |-> type_name, annotations |-> annotations]
WDecl(kind, name, properties, annotations) ==
    [kind |-> kind, name |-> name, properties |-> properties, annotations |-> annotations,
     source_node |-> Str(<<>>), target_node |-> Str(<<>>), parameters |-> <<>>]
WEdge(name, source_node, target_node, properties) ==
    [kind |-> "edge", name |-> name, properties |-> properties, annotations |-> <<>>,
     source_node |-> source_node, target_node |-> target_node, parameters |-> <<>>]
WAnnotation(name, parameters) ==
    [kind |-> "annotation", name |-> name, properties |-> <<>>, annotations |-> <<>>,
     source_node |-> Str(<<>>), target_node |-> Str(<<>>), parameters |-> parameters]
WDocument(namespace, imports, declarations) ==
    [namespace |-> namespace, imports |-> imports, declarations |-> declarations]

\* the ways a property type is written: bare, dotted (as a QualifiedName and as a
\* str), declared or not
TypeReferences ==
    {Str(sPoint), Str(sString), QualifiedName(<<sString>>),
     QualifiedName(<<sFoo, sPoint>>), Str(join_dots(<<sFoo, sPoint>>))}

WrittenTypes ==
    {WDecl("type", Str(sPoint), <<>>, <<>>),
     WDecl("type", Str(sPoint), <<WProperty(sLoc, Str(sString), <<>>)>>, <<>>)}
WrittenNodes ==
    {WDecl("node", Str(sPerson), <<>>, <<>>),
     WDecl("node", QualifiedName(<<sFoo, sPerson>>), <<>>, <<>>),
     WDecl("node", Str(sPerson), <<>>, <<Str(sKey)>>),
     WDecl("node", Str(sPerson), <<WProperty(sHome, Str(sPoint), <<Str(sKey)>>)>>, <<>>),
     WDecl("node", Str(sPerson), <<WProperty(sHome, Str(sString), <<>>)>>, <<Str(sKey)>>),
     WDecl("node", Str(sPerson),
           <<WProperty(sHome, Str(sString), <<>>), WProperty(sLoc, Str(sString), <<>>)>>, <<>>)}
    \cup {WDecl("node", Str(sPerson), <<WProperty(sLoc, t, <<>>)>>, <<>>) : t \in TypeReferences}
WrittenEdges ==
    {WEdge(Str(sWorksAt), Str(sPerson), Str(sPerson), <<>>),
     WEdge(Str(sWorksAt), Str(sPerson), Str(sCompany), <<>>),
     WEdge(Str(sWorksAt), Str(sPoint), Str(sPerson), <<WProperty(sLoc, Str(sString), <<>>)>>)}
WrittenAnnotations ==
    {WAnnotation(Str(sKey), <<>>),
     WAnnotation(Str(sKey), <<[name |-> sLoc, type_name |-> Str(sString)]>>)}
WrittenDeclarations == WrittenTypes \cup WrittenNodes \cup WrittenEdges \cup WrittenAnnotations

Namespaces == {NoNamespace, QualifiedName(<<sFoo>>), QualifiedName(<<sBar>>)}
ImportLists == {<<>>, <<QualifiedName(<<sA>>)>>, <<QualifiedName(<<sFoo>>)>>}

\* what the second document, file A, may declare: at most one thing
LibraryDeclarations ==
    {<<>>} \cup {<<w>> : w \in
        {WDecl("type", Str(sPoint), <<>>, <<>>),
         WDecl("node", Str(sPerson), <<>>, <<>>),
         WDecl("node", Str(sPerson), <<WProperty(sHome, Str(sString), <<>>)>>, <<>>),
         WAnnotation(Str(sKey), <<>>)}}

PathA == <<SrcDir, "A">>
PathB == <<SrcDir, "B">>
Entry(key, value) == [key |-> key, value |-> value]
\* the maps of source texts: B alone, or A and B in either order
Arrangements == {"B", "AB", "BA"}
SourceMap(arrangement, a, b) ==
    CASE arrangement = "B" -> <<Entry(PathB, b)>>
      [] arrangement = "AB" -> <<Entry(PathA, a), Entry(PathB, b)>>
      [] arrangement = "BA" -> <<Entry(PathB, b), Entry(PathA, a)>>

\* the loader's dict for these texts
ParsedDocuments(srcs) == [i \in 1..Len(srcs) |-> Entry(srcs[i].key, parse_gmdsl(srcs[i].value))]

\* the loader is not part of a validator run
LoaderIdle ==
    /\ fs = [p \in Paths |-> Missing]
    /\ include_paths = <<>>
    /\ root = None
    /\ loaded_asts = <<>>
    /\ errors = <<>>
    /\ processing = {}
    /\ stack = <<>>
    /\ pc = "idle"
    /\ opened = [p \in Paths |-> 0]
    /\ parsed = [p \in Paths |-> 0]

ValidatorInit ==
    /\ LoaderIdle
    /\ FunctionIdle
    /\ CliIdle
    \* the document under validation, file B, and a second document, file A, which
    \* has a namespace and imports nothing
    /\ \E arrangement \in Arrangements, ns \in Namespaces, imps \in ImportLists,
          decls \in SeqsUpTo(WrittenDeclarations, MaxDeclarations),
          libns \in Namespaces \ {NoNamespace}, libdecls \in LibraryDeclarations :
            /\ arrangement = "B" => (libns = QualifiedName(<<sFoo>>) /\ libdecls = <<>>)
            /\ sources = SourceMap(arrangement, WDocument(libns, <<>>, libdecls),
                                  WDocument(ns, imps, decls))
    /\ documents = ParsedDocuments(sources)
    /\ validation_errors = <<>>
    /\ defined_types = <<>>
    /\ defined_nodes = <<>>
    /\ defined_annotations = <<>>
    /\ vpc = "start"
    /\ exception = ""

\* validate, lines 103-107: resolve the property types, reset the run's state
ResolvePropertyTypes ==
    /\ vpc = "start"
    /\ documents' = _resolve_property_types(documents)
    /\ validation_errors' = <<>>
    /\ defined_types' = <<>>
    /\ defined_nodes' = <<>>
    /\ defined_annotations' = <<>>
    /\ vpc' = "collect"
    /\ UNCHANGED <<sources, exception>>
    /\ UNCHANGED <<loader_vars, function_vars, cli_vars>>

\* validate, lines 109-177: the first pass
CollectDefinitions ==
    /\ vpc = "collect"
    /\ LET tables == collect_definitions(documents)
       IN  /\ validation_errors' = validation_errors \o tables.errors
           /\ defined_types' = tables.types
           /\ defined_nodes' = tables.nodes
           /\ defined_annotations' = tables.annotations
    /\ vpc' = "check"
    /\ UNCHANGED <<sources, documents, exception>>
    /\ UNCHANGED <<loader_vars, function_vars, cli_vars>>

\* validate, lines 179-207: the second pass, then return self.errors, unless a
\* check raised
ValidateReferences ==
    /\ vpc = "check"
    /\ LET result == validate_references(documents, validation_errors)
       IN  /\ validation_errors' = result.errors
           /\ exception' = result.raised
           /\ vpc' = IF result.raised = "" THEN "returned" ELSE "raised"
    /\ UNCHANGED <<sources, documents, defined_types, defined_nodes, defined_annotations>>
    /\ UNCHANGED <<loader_vars, function_vars, cli_vars>>

ValidatorNext ==
    \/ ResolvePropertyTypes
    \/ CollectDefinitions
    \/ ValidateReferences

ValidatorSpec == ValidatorInit /\ [][ValidatorNext]_vars


LoaderSpec == Init /\ [][Next]_vars
LoaderFairSpec == LoaderSpec /\ WF_vars(Next)

(***************************************************************************)
(* _resolve_import called on its own: any of the files may exist, and the  *)
(* include path is any list of directories.                                *)
(***************************************************************************)
\* most directories on the include path
MaxIncludePaths == 2

IncDir == "inc"
ResolverDirs == {SrcDir, LibDir, IncDir}
\* every directory holds A.gm, the importing file; B.gm and C.gm may be anywhere
ResolverFileSystems ==
    {[p \in ResolverDirs \X Modules |-> IF p[2] = "A" \/ p \in present THEN Parsed(<<>>) ELSE Missing] :
        present \in SUBSET (ResolverDirs \X {"B", "C"})}
IncludePathLists == SeqsUpTo(ResolverDirs, MaxIncludePaths)
ResolveCalls ==
    {[op |-> "_resolve_import", module_name |-> m, importing_file_path |-> <<d, "A">>] :
        m \in {"B", "C"}, d \in ResolverDirs}

ResolverInit ==
    /\ fs \in ResolverFileSystems
    /\ include_paths \in IncludePathLists
    /\ root = None
    /\ loaded_asts = <<>>
    /\ errors = <<>>
    /\ processing = {}
    /\ stack = <<>>
    /\ pc = "idle"
    /\ opened = [p \in Paths |-> 0]
    /\ parsed = [p \in Paths |-> 0]
    /\ ValidatorIdle
    /\ CliIdle
    /\ call \in ResolveCalls
    /\ outcome = NoResult

\* one call of AstLoader._resolve_import
ResolveImport ==
    /\ call.op = "_resolve_import"
    /\ outcome = NoResult
    /\ outcome' = [returned |-> TRUE,
                   value |-> _resolve_import(call.module_name, call.importing_file_path)]
    /\ UNCHANGED <<call, loader_vars, validator_vars, cli_vars>>

ResolverNext == ResolveImport
ResolverSpec == ResolverInit /\ [][ResolverNext]_vars

(***************************************************************************)
(* The transformer called on its own: qualify_name on one name, and the    *)
(* whole transformation of a text of a few statements.                     *)
(***************************************************************************)
\* most statements of a text
MaxStatements == 3

sBarPoint == join_dots(<<sBar, sPoint>>)
sBarKey == join_dots(<<sBar, sKey>>)
sBarCompany == join_dots(<<sBar, sCompany>>)
TextStatements ==
    {TNamespace(sFoo), TNamespace(sBar), TImport(sA),
     TDeclaration(WDecl("node", name_token(sPerson), <<>>, <<>>)),
     TDeclaration(WDecl("type", name_token(sBarPoint), <<>>, <<>>)),
     TDeclaration(WEdge(name_token(sWorksAt), name_token(sPerson), name_token(sBarCompany), <<>>)),
     TDeclaration(WAnnotation(name_token(sKey),
                              <<[name |-> sLoc, type_name |-> name_token(sString)]>>)),
     TDeclaration(WAnnotation(name_token(sBarKey),
                              <<[name |-> sLoc, type_name |-> name_token(sBarPoint)]>>)),
     TDeclaration(WDecl("node", name_token(sPerson),
                        <<WProperty(sHome, name_token(sPoint), <<name_token(sKey)>>)>>,
                        <<name_token(sBarKey)>>))}
ParseCalls ==
    {[op |-> "parse_gmdsl", text |-> t] : t \in SeqsUpTo(TextStatements, MaxStatements)}

\* the names qualify_name is called on: bare and dotted strs, QualifiedNames
QualifiableNames ==
    {Str(sPerson), Str(<<>>), Str(sBarPoint), Str(join_dots(<<sFoo, sBar, sPoint>>)),
     QualifiedName(<<>>), QualifiedName(<<sPerson>>), QualifiedName(<<sFoo, sPoint>>),
     QualifiedName(<<sBar, sPoint>>)}
QualifyCalls ==
    {[op |-> "qualify_name", current_namespace |-> ns, name |-> x] :
        ns \in Namespaces \cup {QualifiedName(<<sFoo, sBar>>)}, x \in QualifiableNames}

\* the items edge_decl may get for an endpoint: a name, or lists nested around one
EndpointItems ==
    {Str(sPerson), name_token(sBarCompany), PyList(<<>>), PyList(<<PyList(<<>>)>>),
     PyList(<<Str(sPerson)>>), PyList(<<PyList(<<Str(sPerson)>>), Str(sCompany)>>)}
EdgeCalls ==
    {[op |-> "edge_decl", current_namespace |-> ns, source_node |-> a, target_node |-> b] :
        ns \in {NoNamespace, QualifiedName(<<sFoo>>)}, a \in EndpointItems, b \in EndpointItems}

ParserInit ==
    /\ LoaderIdle
    /\ ValidatorIdle
    /\ CliIdle
    /\ call \in ParseCalls \cup QualifyCalls \cup EdgeCalls
    /\ outcome = NoResult

\* one run of the transformer over a text (parse_gmdsl)
ParseText ==
    /\ call.op = "parse_gmdsl"
    /\ outcome = NoResult
    /\ LET done == document(call.text)
       IN  outcome' = [returned |-> TRUE,
                       value |-> Document(done.namespace, done.imports, done.declarations),
                       warnings |-> done.warnings]
    /\ UNCHANGED <<call, loader_vars, validator_vars, cli_vars>>

\* one call of AstTransformer.qualify_name
QualifyName ==
    /\ call.op = "qualify_name"
    /\ outcome = NoResult
    /\ outcome' = [returned |-> TRUE, value |-> qualify_name(call.current_namespace, call.name)]
    /\ UNCHANGED <<call, loader_vars, validator_vars, cli_vars>>

\* one call of AstTransformer.edge_decl
EdgeDecl ==
    /\ call.op = "edge_decl"
    /\ outcome = NoResult
    /\ outcome' = edge_decl(call.current_namespace, Str(sWorksAt), call.source_node, call.target_node)
    /\ UNCHANGED <<call, loader_vars, validator_vars, cli_vars>>

ParserNext == ParseText \/ QualifyName \/ EdgeDecl
ParserSpec == ParserInit /\ [][ParserNext]_vars

(***************************************************************************)
(* cli.py and codegen.py: the commands `validate` and `generate`.  What a  *)
(* phase finds (load errors, validation errors, a failing plugin) is       *)
(* chosen freely when the phase runs; the commands only test those results.*)
(***************************************************************************)
GeneratorNames == {"csharp", "cypher", "nope"}
\* what discover_plugins may find installed
PluginRegistries == SUBSET {"csharp", "cypher"}
CliCommands ==
    {[op |-> "cli", command |-> "validate", skip_validation |-> FALSE, generator_name |-> "",
      namespace |-> FALSE, generate_incoming |-> FALSE, plugins |-> {}]}
    \cup {[op |-> "cli", command |-> "generate", skip_validation |-> skip, generator_name |-> g,
           namespace |-> ns, generate_incoming |-> inc, plugins |-> reg] :
             skip \in BOOLEAN, g \in GeneratorNames, ns \in BOOLEAN, inc \in BOOLEAN,
             reg \in PluginRegistries}

\* what a plugin's generate, its constructor or os.makedirs may raise
PluginExceptions ==
    {[type |-> t, origin |-> o, message |-> ""] :
        t \in {"RuntimeError", "ValueError"}, o \in {"makedirs", "instantiate", "generate"}}
\* the entry of `invoked` for a phase or step and how it ended
Event(phase, result) == [phase |-> phase, result |-> result]

CliInit ==
    /\ LoaderIdle
    /\ ValidatorIdle
    /\ call \in CliCommands
    /\ outcome = NoResult
    /\ cli_pc = "start"
    /\ invoked = <<>>
    /\ propagated = NoException
    /\ exit_code = -1

\* a command that loads without regard to loader.errors
CliLoad_ignores_errors ==
    /\ cli_pc = "start"
    /\ \E failed \in BOOLEAN :
          /\ invoked' = Append(invoked, Event("load", IF failed THEN "errors" ELSE "ok"))
          /\ cli_pc' = "loaded"
          /\ exit_code' = exit_code
    /\ UNCHANGED <<propagated, call, outcome, loader_vars, validator_vars>>

\* validate / generate: AstLoader(...).load(root_file), then `if loader.errors`
CliLoad ==
    /\ cli_pc = "start"
    /\ \E failed \in BOOLEAN :
          /\ invoked' = Append(invoked, Event("load", IF failed THEN "errors" ELSE "ok"))
          /\ cli_pc' = IF failed THEN "exited" ELSE "loaded"
          /\ exit_code' = IF failed THEN 1 ELSE exit_code
    /\ UNCHANGED <<propagated, call, outcome, loader_vars, validator_vars>>

\* validate / generate: validate_asts(loaded_asts), then `if validation_errors`;
\* an exception of validate_asts is caught nowhere and ends the process
CliValidate ==
    /\ cli_pc = "loaded"
    /\ call.command = "validate" \/ ~call.skip_validation
    /\ \E result \in {"ok", "errors", "raised"} :
          /\ invoked' = Append(invoked, Event("validate", result))
          /\ cli_pc' = IF result = "ok" /\ call.command = "generate" THEN "generation" ELSE "exited"
          /\ exit_code' = IF result # "ok" THEN 1
                          ELSE IF call.command = "validate" THEN 0 ELSE exit_code
    /\ UNCHANGED <<propagated, call, outcome, loader_vars, validator_vars>>

\* generate --skip-validation: "Skipping validation step."
CliSkipValidation ==
    /\ cli_pc = "loaded"
    /\ call.command = "generate" /\ call.skip_validation
    /\ cli_pc' = "generation"
    /\ UNCHANGED <<invoked, propagated, exit_code, call, outcome, loader_vars, validator_vars>>

\* the steps run_generation takes for a registered plugin, up to the one that
\* raises (NoException: none does)
StepsUntil(raised) ==
    LET steps == <<"makedirs", "instantiate", "generate">>
        last == IF raised = NoException THEN Len(steps)
                ELSE CHOOSE k \in 1..Len(steps) : steps[k] = raised.origin
    IN  [k \in 1..last |-> Event(steps[k], IF steps[k] = raised.origin THEN raised.type ELSE "ok")]

\* a run_generation that reports a failure of the plugin and returns
RunGeneration_swallows ==
    /\ cli_pc = "generation"
    /\ IF call.generator_name \notin call.plugins
       THEN /\ invoked' = Append(invoked, Event("run_generation", "raised"))
            /\ propagated' = [type |-> "ValueError", origin |-> "run_generation",
                               message |-> call.generator_name]
       ELSE \E raised \in PluginExceptions \cup {NoException} :
               /\ invoked' = Append(invoked, Event("run_generation", "ok")) \o StepsUntil(raised)
               /\ propagated' = NoException
    /\ cli_pc' = "generated"
    /\ UNCHANGED <<exit_code, call, outcome, loader_vars, validator_vars>>

\* codegen.run_generation: look the plugin up, raise ValueError if it is not
\* registered; else make the output directory, instantiate the plugin and call
\* its generate; whatever these raise is printed and raised again
RunGeneration ==
    /\ cli_pc = "generation"
    /\ IF call.generator_name \notin call.plugins
       THEN /\ invoked' = Append(invoked, Event("run_generation", "raised"))
            /\ propagated' = [type |-> "ValueError", origin |-> "run_generation",
                               message |-> call.generator_name]
       ELSE \E raised \in PluginExceptions \cup {NoException} :
               /\ invoked' = Append(invoked, Event("run_generation",
                                        IF raised = NoException THEN "ok" ELSE "raised"))
                             \o StepsUntil(raised)
               /\ propagated' = raised
    /\ cli_pc' = "generated"
    /\ UNCHANGED <<exit_code, call, outcome, loader_vars, validator_vars>>

\* generate: the try around run_generation: success, or click.Abort on ValueError
\* and on any other Exception
CliFinish ==
    /\ cli_pc = "generated"
    /\ exit_code' = IF propagated = NoException THEN 0 ELSE 1
    /\ cli_pc' = "exited"
    /\ UNCHANGED <<invoked, propagated, call, outcome, loader_vars, validator_vars>>

CliNext == CliLoad \/ CliValidate \/ CliSkipValidation \/ RunGeneration \/ CliFinish
CliSpec == CliInit /\ [][CliNext]_vars

(***************************************************************************)
(* One AstLoader and one Validator used twice: after a first run has ended *)
(* the same call is made again on the same instance, with the same input.  *)
(* `call` marks the second run and `outcome` keeps what the first run gave.*)
(***************************************************************************)
\* what a load call gives its caller: how it ended, the map, and loader.errors
LoadResult == [ended |-> pc, loaded_asts |-> loaded_asts, errors |-> errors]
\* what a validate call gives its caller, and the tables it leaves on the instance
ValidateResult ==
    [ended |-> vpc, exception |-> exception, errors |-> validation_errors,
     documents |-> documents, defined_types |-> defined_types,
     defined_nodes |-> defined_nodes, defined_annotations |-> defined_annotations]

\* a load that keeps the errors list of the instance
LoadAgain_keeps_errors ==
    /\ pc \in {"done", "raised"}
    /\ call = NoCall
    /\ call' = [op |-> "load"]
    /\ outcome' = Returns(LoadResult)
    /\ loaded_asts' = <<>>
    /\ errors' = errors
    /\ processing' = {}
    /\ stack' = <<Frame(root)>>
    /\ pc' = "running"
    /\ UNCHANGED <<fs, include_paths, root, opened, parsed>>
    /\ UNCHANGED <<validator_vars, cli_vars>>

\* AstLoader.load, lines 68-73, called again on a loader whose load has ended
LoadAgain ==
    /\ pc \in {"done", "raised"}
    /\ call = NoCall
    /\ call' = [op |-> "load"]
    /\ outcome' = Returns(LoadResult)
    /\ loaded_asts' = <<>>
    /\ errors' = <<>>
    /\ processing' = {}
    /\ stack' = <<Frame(root)>>
    /\ pc' = "running"
    /\ UNCHANGED <<fs, include_paths, root, opened, parsed>>
    /\ UNCHANGED <<validator_vars, cli_vars>>

\* Validator.validate called again, on the same texts parsed anew, on a
\* Validator whose validate has ended; its fields are as the first run left them
ValidateAgain ==
    /\ vpc \in {"returned", "raised"}
    /\ call = NoCall
    /\ call' = [op |-> "validate"]
    /\ outcome' = Returns(ValidateResult)
    /\ documents' = ParsedDocuments(sources)
    /\ exception' = ""
    /\ vpc' = "start"
    /\ UNCHANGED <<sources, validation_errors, defined_types, defined_nodes, defined_annotations>>
    /\ UNCHANGED <<loader_vars, cli_vars>>

\* a loader on any of the file systems, or a Validator given a single document
ReuseInit == Init \/ (ValidatorInit /\ Len(sources) = 1)
ReuseNext == Next \/ ValidatorNext \/ LoadAgain \/ ValidateAgain
ReuseSpec == ReuseInit /\ [][ReuseNext]_vars

(***************************************************************************)
(* One map of documents validated twice: as written, and with the          *)
(* declarations of one document in another order.  `call` marks the second *)
(* run and `outcome` keeps what the first run gave.                        *)
(***************************************************************************)
\* the orders n declarations can be written in, the written one excluded
Reorderings(n) ==
    {f \in [1..n -> 1..n] :
        /\ \A i, j \in 1..n : i # j => f[i] # f[j]
        /\ \E i \in 1..n : f[i] # i}
\* the texts srcs with the declarations of document d in the order f
Permuted(srcs, d, f) ==
    [srcs EXCEPT ![d].value.declarations = [k \in 1..Len(@) |-> @[f[k]]]]

\* Validator.validate called on the permuted texts, once the run on the written
\* texts has ended
ValidatePermuted ==
    /\ vpc \in {"returned", "raised"}
    /\ call = NoCall
    /\ \E d \in 1..Len(sources) :
         \E f \in Reorderings(Len(sources[d].value.declarations)) :
            /\ call' = [op |-> "validate_permuted"]
            /\ outcome' = Returns(ValidateResult)
            /\ sources' = Permuted(sources, d, f)
            /\ documents' = ParsedDocuments(Permuted(sources, d, f))
    /\ exception' = ""
    /\ vpc' = "start"
    /\ UNCHANGED <<validation_errors, defined_types, defined_nodes, defined_annotations>>
    /\ UNCHANGED <<loader_vars, cli_vars>>

\* the documents of ValidatorSpec in which some document has two declarations
PermuteInit ==
    /\ ValidatorInit
    /\ \E d \in 1..Len(sources) : Len(sources[d].value.declarations) >= 2
PermuteNext == ValidatorNext \/ ValidatePermuted
PermuteSpec == PermuteInit /\ [][PermuteNext]_vars

(***************************************************************************)
(* The import graph of the file system, computed without the loader.       *)
(***************************************************************************)
\* the files the import statements of file p resolve to (None for an unresolved one)
ImportTargets(p) ==
    IF fs[p].kind = "ok"
    THEN {_resolve_import(fs[p].imports[i], p) : i \in 1..Len(fs[p].imports)}
    ELSE {}

RECURSIVE Closure(_)
Closure(S) ==
    LET T == S \cup ((UNION {ImportTargets(p) : p \in S}) \ {None})
    IN  IF T = S THEN S ELSE Closure(T)

\* the files reachable from p through import statements, p included
ReachableFrom(p) == Closure({p})
\* some import statement of p leads, directly or through other files, back to p
OnCycle(p) == \E q \in ImportTargets(p) \ {None} : p \in ReachableFrom(q)

ErrorsWith(message) == {i \in 1..Len(errors) : errors[i].message = message}
Finished == pc = "done"

(***************************************************************************)
(* Claims about the loader.                                                *)
(***************************************************************************)
\* X imports only Y and Y imports only X, each resolving to the other
MutualImport(X, Y) ==
    /\ X # Y
    /\ fs[X].kind = "ok" /\ fs[Y].kind = "ok"
    /\ ImportTargets(X) = {Y} /\ Len(fs[X].imports) = 1
    /\ ImportTargets(Y) = {X} /\ Len(fs[Y].imports) = 1

\* C1: for files X and Y that import each other, load(X) returns a map with
\* exactly the entries X and Y and leaves exactly one circular-import error.
C1_MutualImportOneCircularError ==
    \A Y \in Paths :
        (Finished /\ MutualImport(root, Y)) =>
            /\ Keys(loaded_asts) = {root, Y}
            /\ Len(loaded_asts) = 2
            /\ Cardinality(ErrorsWith("Circular import detected")) = 1

\* the problems a finished load met, from the file system alone
RootIsMissing == ~exists(root)
Visited == IF exists(root) THEN ReachableFrom(root) ELSE {}
UnresolvedImports ==
    {u \in Visited \X Modules :
        \E i \in 1..Len(fs[u[1]].imports) :
            fs[u[1]].imports[i] = u[2] /\ _resolve_import(u[2], u[1]) = None}
FailingFiles == {p \in Visited : fs[p].kind \in {"unreadable", "malformed"}}
CircularFiles == {p \in Visited : OnCycle(p)}
Recorded(message, subject, source_path) ==
    \E i \in 1..Len(errors) : errors[i] = LoadError(message, subject, source_path)

\* C2: load never raises for a missing root, an unresolvable import, a circular
\* import, a read failure or a parse failure: it returns the map of the files that
\* did load, and each of these problems is recorded as a LoadError in errors.
C2_NeverRaisesProblemsRecorded ==
    /\ pc # "raised"
    /\ Finished =>
        /\ Keys(loaded_asts) = {p \in Visited : fs[p].kind = "ok"}
        /\ RootIsMissing => Recorded("File not found", root, root)
        /\ \A u \in UnresolvedImports : Recorded("Cannot resolve import", u[2], u[1])
        /\ \A p \in FailingFiles : Recorded("Error processing file", fs[p].kind, p)
        /\ CircularFiles # {} => ErrorsWith("Circular import detected") # {}

\* every import reachable from the root resolves, and every reachable file parses
AllResolveAndParse ==
    /\ exists(root)
    /\ \A p \in ReachableFrom(root) : fs[p].kind = "ok" /\ None \notin ImportTargets(p)

\* C3: when all transitive imports of the root resolve and parse, the keys of the
\* returned map are exactly the files reachable from the root, each key once, and
\* every such file was opened and parsed exactly once (no other file was touched).
C3_ClosureParsedOnce ==
    (Finished /\ AllResolveAndParse) =>
        /\ Keys(loaded_asts) = ReachableFrom(root)
        /\ Len(loaded_asts) = Cardinality(ReachableFrom(root))
        /\ \A p \in Paths :
            /\ opened[p] = (IF p \in ReachableFrom(root) THEN 1 ELSE 0)
            /\ parsed[p] = opened[p]

\* a finished load of a diamond: some file is imported by two different loaded files
C3_DiamondLoaded ==
    /\ Finished /\ AllResolveAndParse
    /\ \E p, q1, q2 \in ReachableFrom(root) :
        /\ q1 # q2 /\ p \notin {q1, q2}
        /\ p \in ImportTargets(q1) /\ p \in ImportTargets(q2)

\* no file has two activations of _load_recursive past its checks at once, and a
\* file that parses is parsed at most once
NoReentry ==
    /\ \A i, j \in 1..Len(stack) :
        (i # j /\ stack[i].phase = "imports" /\ stack[j].phase = "imports")
            => stack[i].path # stack[j].path
    /\ \A p \in Paths : fs[p].kind = "ok" => parsed[p] <= 1

\* C4: load terminates for every file system and import graph, self-imports and
\* longer cycles included, and the recursion never re-enters a file that is
\* already loaded or being loaded.
C4_LoadTerminates == <>Finished /\ []NoReentry

\* a finished load whose root lies on an import cycle through two other files
C4_LongCycleLoaded ==
    /\ Finished
    /\ OnCycle(root)
    /\ Cardinality(ReachableFrom(root)) = 3
    /\ \A p \in ReachableFrom(root) : Cardinality(ImportTargets(p)) = 1 /\ p \notin ImportTargets(p)

\* the import statements of file p, by position, that resolve to no file
UnresolvedAt(p) ==
    {i \in 1..Len(fs[p].imports) : _resolve_import(fs[p].imports[i], p) = None}

ImportsOf(q) ==
    {u \in Visited \X (1..MaxImportStatements) :
        /\ fs[u[1]].kind = "ok"
        /\ u[2] <= Len(fs[u[1]].imports)
        /\ _resolve_import(fs[u[1]].imports[u[2]], u[1]) = q}

Returned == vpc = "returned"
\* validate has ended: it returned self.errors, or an exception left it
Ended == vpc \in {"returned", "raised"}
ErrorsNamed(text) ==
    {i \in 1..Len(validation_errors) : validation_errors[i].message.text = text}
\* the declarations of the texts, each as <<document, declaration>> indexes
Sites == UNION {{<<i, j>> : j \in 1..Len(sources[i].value.declarations)} : i \in 1..Len(sources)}
WrittenAt(s) == sources[s[1]].value.declarations[s[2]]
DeclarationAt(s) == documents[s[1]].value.declarations[s[2]]
IsString(t) == t \in {Str(sString), QualifiedName(<<sString>>)}

\* C5: validate never raises, whatever the documents hold, declarations that
\* carry annotation usages included: every problem becomes a ValidationError.
C5_ValidateNeverRaises == vpc # "raised"

\* a text with a namespace whose only declaration is a node with one property, of
\* type String, and no annotation anywhere
NodeWithStringProperty(w) ==
    /\ w.namespace # NoNamespace
    /\ Len(w.declarations) = 1
    /\ w.declarations[1].kind = "node"
    /\ w.declarations[1].annotations = <<>>
    /\ Len(w.declarations[1].properties) = 1
    /\ IsString(w.declarations[1].properties[1].type_name)
    /\ w.declarations[1].properties[1].annotations = <<>>

\* C6: a lone document with a namespace and a node whose only property has type
\* String, String being declared nowhere, validates with zero errors.
C6_BuiltinStringAccepted ==
    (Ended /\ Len(sources) = 1 /\ NodeWithStringProperty(sources[1].value)) =>
        (Returned /\ validation_errors = <<>>)

\* file A: namespace Foo, type Point; file B: namespace Bar, import A, a node with
\* the property loc of type Foo.Point
ImportsFooPoint(a, b) ==
    /\ sources[a].key = PathA /\ sources[b].key = PathB
    /\ sources[a].value = WDocument(QualifiedName(<<sFoo>>), <<>>,
                                    <<WDecl("type", Str(sPoint), <<>>, <<>>)>>)
    /\ sources[b].value.namespace = QualifiedName(<<sBar>>)
    /\ sources[b].value.imports = <<QualifiedName(<<sA>>)>>
    /\ \E t \in {QualifiedName(<<sFoo, sPoint>>), Str(join_dots(<<sFoo, sPoint>>))} :
        sources[b].value.declarations =
            <<WDecl("node", Str(sPerson), <<WProperty(sLoc, t, <<>>)>>, <<>>)>>

\* C7: with A (namespace Foo, type Point) and B (namespace Bar, import of module
\* A, node with loc : Foo.Point) both loaded, validate returns zero errors and the
\* resolved type of loc is Foo.Point.
C7_ImportedQualifiedTypeResolves ==
    \A a, b \in 1..Len(sources) :
        (Ended /\ ImportsFooPoint(a, b)) =>
            /\ Returned
            /\ validation_errors = <<>>
            /\ str(AsQualifiedName(DeclarationAt(<<b, 1>>).properties[1].type_name))
                    = join_dots(<<sFoo, sPoint>>)

\* the properties whose declared type matches no type available to their document:
\* <<document, declaration, property>> indexes.  Availability is the validator's own.
UnknownTypeProperties ==
    UNION {
        LET doc == ParsedDocuments(sources)[s[1]].value
            decl == doc.declarations[s[2]]
        IN  IF HasProperties(decl)
            THEN {<<s, k>> : k \in {n \in 1..Len(decl.properties) :
                    ~IsAvailable(decl.properties[n].type_name,
                                 _get_available_types(doc, ParsedDocuments(sources)))}}
            ELSE {}
        : s \in Sites}
\* the error at index i reports property u
ReportsUnknownType(i, u) ==
    LET decl == ParsedDocuments(sources)[u[1][1]].value.declarations[u[1][2]]
        e == validation_errors[i]
    IN  /\ e.source_path = sources[u[1][1]].key
        /\ e.message.args[2] = decl.properties[u[2]].name
        /\ e.message.args[3] = str(decl.name)
        /\ simple_name(from_str(e.message.args[1]))
                = simple_name(AsQualifiedName(decl.properties[u[2]].type_name))

\* C8: when the documents hold N properties of unknown type, validate ends with
\* exactly N unknown-type errors, one for each such property and naming its
\* property, owner and type: no error stops the checks of what comes later.
C8_EveryUnknownTypeReported ==
    Ended =>
        /\ Cardinality(ErrorsNamed("Unknown type")) = Cardinality(UnknownTypeProperties)
        /\ \A u \in UnknownTypeProperties :
            \E i \in ErrorsNamed("Unknown type") : ReportsUnknownType(i, u)

\* the first pass of validate is over
Collected == vpc \in {"check", "returned", "raised"}
NodeSites == {s \in Sites : WrittenAt(s).kind = "node"}
EdgeSites == {s \in Sites : WrittenAt(s).kind = "edge"}
\* the declarations of the same kind as the one at s that carry its qualified name
Namesakes(s, sites) == {t \in sites : DeclarationAt(t).name = DeclarationAt(s).name}
\* s comes before t in the order validate walks the documents
Before(s, t) == s[1] < t[1] \/ (s[1] = t[1] /\ s[2] < t[2])
FirstOf(S) == CHOOSE s \in S : \A t \in S \ {s} : Before(s, t)
\* the duplicate-definition errors that name q
DuplicateErrors(q) ==
    {i \in ErrorsNamed("Duplicate type definition") \cup ErrorsNamed("Duplicate node definition")
           \cup ErrorsNamed("Duplicate annotation definition") \cup ErrorsNamed("Duplicate edge definition") :
        validation_errors[i].message.args = <<q>>}

\* C9: two nodes declared with the same qualified name, in one document or in
\* two, leave exactly one duplicate-definition error naming that name, and the
\* table of nodes keeps the first of the two declarations.
C9_DuplicateNodeKeepsFirst ==
    Collected =>
        \A s \in NodeSites :
            LET q == str(DeclarationAt(s).name)
                twins == Namesakes(s, NodeSites)
            IN  Cardinality(twins) = 2 =>
                    /\ Cardinality(DuplicateErrors(q)) = 1
                    /\ \A i \in DuplicateErrors(q) :
                        validation_errors[i].message.text = "Duplicate node definition"
                    /\ q \in Keys(defined_nodes)
                    /\ Get(defined_nodes, q) = DeclarationAt(FirstOf(twins))

\* validate has returned for two documents that declare the same node differently
C9_SameNodeInTwoDocuments ==
    /\ Returned
    /\ \E s, t \in NodeSites :
        /\ s[1] < t[1]
        /\ Namesakes(s, NodeSites) = {s, t}
        /\ DeclarationAt(s) # DeclarationAt(t)

\* C10: two edges declared with the same name in one document leave a
\* duplicate-definition error naming that edge.
C10_DuplicateEdgeReported ==
    Ended =>
        \A s, t \in EdgeSites :
            (s[1] = t[1] /\ s[2] < t[2] /\ DeclarationAt(s).name = DeclarationAt(t).name)
                => DuplicateErrors(str(DeclarationAt(s).name)) # {}

\* the node names every document can refer to: both spellings of every declared node
DeclaredNodeNames ==
    UNION {NamesOf(documents[i].value.declarations, "NodeDeclaration") : i \in 1..Len(documents)}
\* the edges whose source (target) names no declared node
DanglingSources == {s \in EdgeSites : str(DeclarationAt(s).source_node) \notin DeclaredNodeNames}
DanglingTargets == {s \in EdgeSites : str(DeclarationAt(s).target_node) \notin DeclaredNodeNames}
\* the error at index i reports the endpoint `node` of the edge at s
ReportsEndpoint(i, s, node) ==
    /\ validation_errors[i].source_path = documents[s[1]].key
    /\ validation_errors[i].message.args = <<str(node), str(DeclarationAt(s).name)>>

\* C11: every edge endpoint that names no declared node (a type, or a name that
\* is declared nowhere) leaves exactly one undefined-node error, tagged source or
\* target, naming the endpoint and the edge; an endpoint that names a declared
\* node leaves none.
C11_EdgeEndpointsChecked ==
    Ended =>
        /\ Cardinality(ErrorsNamed("Undefined source node")) = Cardinality(DanglingSources)
        /\ Cardinality(ErrorsNamed("Undefined target node")) = Cardinality(DanglingTargets)
        /\ \A s \in DanglingSources : \E i \in ErrorsNamed("Undefined source node") :
                ReportsEndpoint(i, s, DeclarationAt(s).source_node)
        /\ \A s \in DanglingTargets : \E i \in ErrorsNamed("Undefined target node") :
                ReportsEndpoint(i, s, DeclarationAt(s).target_node)

\* the annotation usages attached to a declaration or to one of its properties
UsagesOf(decl) ==
    Range(decl.annotations) \cup
    UNION {Range(decl.properties[k].annotations) : k \in 1..Len(decl.properties)}
\* the usages, with their document, that match no available annotation declaration
UnknownUsages ==
    UNION {{<<s[1], usage>> : usage \in
                {u \in UsagesOf(DeclarationAt(s)) :
                    /\ HasProperties(DeclarationAt(s))
                    /\ str(u.name) \notin _get_available_annotations(documents[s[1]].value)}}
           : s \in Sites}

\* C12: every annotation usage on a type, node or edge declaration or on one of
\* its properties is checked: each usage that matches no available annotation
\* declaration leaves an unknown-annotation error naming it.
C12_UnknownAnnotationsReported ==
    Ended =>
        \A u \in UnknownUsages :
            \E i \in ErrorsNamed("Unknown annotation") :
                /\ validation_errors[i].source_path = documents[u[1]].key
                /\ validation_errors[i].message.args = <<str(u[2].name)>>

\* the place of a document in the iteration order of the dict
DocIndex(path) == CHOOSE d \in 1..Len(documents) : documents[d].key = path
\* C13: the errors validate returns follow the document iteration order: an
\* error about an earlier document never comes after one about a later document.
C13_ErrorsInDocumentOrder ==
    Returned =>
        \A i, j \in 1..Len(validation_errors) :
            i < j => DocIndex(validation_errors[i].source_path)
                        <= DocIndex(validation_errors[j].source_path)

DuplicateTexts ==
    {"Duplicate type definition", "Duplicate node definition", "Duplicate annotation definition"}
\* the pass of validate that reports the error at index i
PassOf(i) == IF validation_errors[i].message.text \in DuplicateTexts THEN 1 ELSE 2
\* the declarations of document d the error e can be about, each with the rank
\* of the check inside the declaration: <<declaration, rank>>
AboutIn(e, d) ==
    LET doc == documents[d].value
        args == e.message.args
        text == e.message.text
        rankOf(decl) ==
            CASE text \in DuplicateTexts ->
                    IF /\ def_name_of(doc, decl) = args[1]
                       /\ text = (CASE decl.kind = "TypeDeclaration" -> "Duplicate type definition"
                                    [] decl.kind = "NodeDeclaration" -> "Duplicate node definition"
                                    [] decl.kind = "AnnotationDeclaration" -> "Duplicate annotation definition"
                                    [] OTHER -> "")
                    THEN {0} ELSE {}
              [] text = "Unknown type" ->
                    IF HasProperties(decl) /\ str(decl.name) = args[3]
                    THEN {k \in 1..Len(decl.properties) :
                            /\ decl.properties[k].name = args[2]
                            /\ str(AsQualifiedName(decl.properties[k].type_name)) = args[1]}
                    ELSE {}
              [] text = "Unknown annotation" ->
                    IF HasProperties(decl) /\ \E u \in Range(decl.annotations) : str(u.name) = args[1]
                    THEN {Len(decl.properties) + 1} ELSE {}
              [] text = "Undefined source node" ->
                    IF decl.kind = "EdgeDeclaration" /\ args = <<str(decl.source_node), str(decl.name)>>
                    THEN {Len(decl.properties) + 2} ELSE {}
              [] text = "Undefined target node" ->
                    IF decl.kind = "EdgeDeclaration" /\ args = <<str(decl.target_node), str(decl.name)>>
                    THEN {Len(decl.properties) + 3} ELSE {}
              [] text = "Unknown type in annotation parameter" ->
                    IF decl.kind = "AnnotationDeclaration" /\ str(decl.name) = args[3]
                    THEN {k \in 1..Len(decl.parameters) :
                            /\ decl.parameters[k].name = args[2]
                            /\ str(AsQualifiedName(decl.parameters[k].type_name)) = args[1]}
                    ELSE {}
              [] OTHER -> {}
    IN  UNION {{<<n, r>> : r \in rankOf(doc.declarations[n])} : n \in 1..Len(doc.declarations)}
\* <<pass, document, declaration, rank>> positions the error at index i can have
PositionsOf(i) ==
    LET d == DocIndex(validation_errors[i].source_path)
    IN  {<<PassOf(i), d, a[1], a[2]>> : a \in AboutIn(validation_errors[i], d)}
\* p does not come after q, lexicographically
NotAfter(p, q) ==
    \/ p[1] < q[1]
    \/ p[1] = q[1] /\ p[2] < q[2]
    \/ p[1] = q[1] /\ p[2] = q[2] /\ p[3] < q[3]
    \/ p[1] = q[1] /\ p[2] = q[2] /\ p[3] = q[3] /\ p[4] <= q[4]

\* C13 as amended: the duplicate-definition errors of the first pass come first,
\* then the reference errors of the second pass; within each pass the errors
\* follow document order, then declaration order, then the order of the checks
\* inside a declaration (properties in order, then the edge's source and target).
C13_ErrorsInPassThenDocumentOrder ==
    Collected =>
        \A i, j \in 1..Len(validation_errors) :
            i < j => \E p \in PositionsOf(i), q \in PositionsOf(j) : NotAfter(p, q)

\* validate returned a duplicate-definition error about the second document ahead
\* of a reference error about the first, and two reference errors of one document
C13_LaterDocumentReportedFirst ==
    /\ Returned
    /\ \E i, j \in 1..Len(validation_errors) :
        /\ i < j
        /\ PassOf(i) = 1 /\ DocIndex(validation_errors[i].source_path) = 2
        /\ PassOf(j) = 2 /\ DocIndex(validation_errors[j].source_path) = 1
    /\ \E i, j \in 1..Len(validation_errors) :
        /\ i < j /\ PassOf(i) = 2
        /\ validation_errors[i].source_path = validation_errors[j].source_path

(***************************************************************************)
(* Claims about import resolution.                                         *)
(***************************************************************************)
\* the sibling of the importing file that the call's import names
SiblingOfCall == <<call.importing_file_path[1], call.module_name>>
\* the places on the include path whose directory holds the imported module
HoldingIncludes ==
    {i \in 1..Len(include_paths) : fs[<<include_paths[i], call.module_name>>].kind # "missing"}

\* C14: an import of M from F resolves to F's sibling M.gm when that exists,
\* otherwise to M.gm in the first directory of the include path that holds it.
C14_SiblingThenIncludeOrder ==
    (call.op = "_resolve_import" /\ outcome.returned) =>
        IF fs[SiblingOfCall].kind # "missing"
        THEN outcome.value = SiblingOfCall
        ELSE \A i \in HoldingIncludes :
                (\A j \in HoldingIncludes : i <= j)
                    => outcome.value = <<include_paths[i], call.module_name>>

\* a call returned for a module that has no sibling file and lies in both include
\* directories, two different ones, neither the importing file's
C14_TwoIncludesHold ==
    /\ call.op = "_resolve_import" /\ outcome.returned
    /\ fs[SiblingOfCall].kind = "missing"
    /\ Len(include_paths) = 2
    /\ HoldingIncludes = {1, 2}
    /\ Cardinality({include_paths[1], include_paths[2], call.importing_file_path[1]}) = 3

(***************************************************************************)
(* Claims about the transformer.                                           *)
(***************************************************************************)
Parsed_ == call.op = "parse_gmdsl" /\ outcome.returned
\* the places of the namespace statements in the text of the call
NamespaceStatements == {i \in 1..Len(call.text) : call.text[i].stmt = "namespace"}
FirstNamespace == CHOOSE i \in NamespaceStatements : \A j \in NamespaceStatements : i <= j

\* C17: of several namespace declarations in one document only the first is
\* honoured: it is the Document's namespace; the later ones cause a warning only.
C17_FirstNamespaceHonoured ==
    (Parsed_ /\ Cardinality(NamespaceStatements) > 1) =>
        /\ outcome.value.namespace = call.text[FirstNamespace].name
        /\ outcome.warnings = Cardinality(NamespaceStatements) - 1

Qualified == call.op = "qualify_name" /\ outcome.returned
\* a name that is fully qualified as given: a QualifiedName, or a str with a dot
FullyQualified(name) == IsQualifiedName(name) \/ has_dot(name.v)

\* C18: qualification is idempotent: qualifying the result of qualify_name
\* again, under the same namespace, gives the same result; and a name that is
\* already fully qualified comes back unchanged (a QualifiedName as the same
\* value, a dotted str as the QualifiedName of the same dotted text).
C18_QualifyIdempotent ==
    Qualified =>
        /\ qualify_name(call.current_namespace, outcome.value) = outcome.value
        /\ FullyQualified(call.name) =>
              /\ str(outcome.value) = str(call.name)
              /\ IsQualifiedName(call.name) => outcome.value = call.name
\* a bare name was put under the namespace, and qualifying again changes nothing
C18_BareNameQualifiedOnce ==
    /\ Qualified
    /\ call.name = Str(sPerson)
    /\ call.current_namespace = QualifiedName(<<sFoo>>)
    /\ outcome.value = QualifiedName(<<sFoo, sPerson>>)

\* the declarations of the text of the call as written, in order
WrittenInText ==
    LET statements == SelectSeq(call.text, LAMBDA item : item.stmt = "declaration")
    IN  [k \in 1..Len(statements) |-> statements[k].decl]
\* the name a written token must become in a document of namespace N
UnderNamespace(N, token) ==
    IF IsQualifiedName(token) \/ has_dot(token.v) THEN from_str(str(token))
    ELSE QualifiedName(N.v \o <<token.v>>)
\* the declaration d holds the names of the written declaration w, the bare
\* ones under N and the dotted ones as written
NamesUnder(N, w, d) ==
    /\ d.name = UnderNamespace(N, w.name)
    /\ w.kind = "edge" =>
          /\ d.source_node = UnderNamespace(N, w.source_node)
          /\ d.target_node = UnderNamespace(N, w.target_node)
    /\ \A i \in 1..Len(w.annotations) :
          d.annotations[i].name = UnderNamespace(N, w.annotations[i])
    /\ \A i \in 1..Len(w.properties) : \A j \in 1..Len(w.properties[i].annotations) :
          d.properties[i].annotations[j].name = UnderNamespace(N, w.properties[i].annotations[j])
    /\ \A i \in 1..Len(w.parameters) :
          d.parameters[i].type_name = UnderNamespace(N, w.parameters[i].type_name)

\* C19: in a document with namespace N every declaration name, edge endpoint,
\* annotation name and annotation parameter type written without a dot is
\* N.token, and every such name written with a dot is as written.
C19_NamesQualifiedUnderNamespace ==
    (Parsed_ /\ outcome.value.namespace # NoNamespace) =>
        /\ Len(outcome.value.declarations) = Len(WrittenInText)
        /\ \A k \in 1..Len(WrittenInText) :
              NamesUnder(outcome.value.namespace, WrittenInText[k], outcome.value.declarations[k])

(***************************************************************************)
(* Claims about the resolution of property types.                          *)
(***************************************************************************)
\* the documents as validate received them, and the places of their properties
Received == ParsedDocuments(sources)
PropertySites ==
    UNION {{<<s[1], s[2], k>> : k \in 1..Len(WrittenAt(s).properties)} : s \in Sites}
ReceivedOwner(p) == Received[p[1]].value.declarations[p[2]]
DeclaredType(p) == ReceivedOwner(p).properties[p[3]].type_name
ResolvedType(p) == documents[p[1]].value.declarations[p[2]].properties[p[3]].type_name
\* the import type map of the document of p
ImportTypeMap(p) == import_type_map_of(Received[p[1]].value, ns_type_maps_of(Values(Received)))
IsBare(t) == ~IsQualifiedName(t) /\ ~has_dot(t.v)
\* t under the namespace of the declaration that owns p: its name without the last part
UnderOwner(p, t) ==
    QualifiedName(SubSeq(ReceivedOwner(p).name.v, 1, Len(ReceivedOwner(p).name.v) - 1) \o <<t.v>>)

OtherFields(decl) ==
    [kind |-> decl.kind, name |-> decl.name, annotations |-> decl.annotations,
     source_node |-> decl.source_node, target_node |-> decl.target_node,
     direction |-> decl.direction, parameters |-> decl.parameters]
\* everything of a list of properties but the types
PropertyFrame(properties) ==
    [k \in 1..Len(properties) |->
        [name |-> properties[k].name, annotations |-> properties[k].annotations]]

\* C21: the resolution pass changes nothing but property types: the documents
\* keep their keys and order, namespace and imports; the declarations their
\* number, order, kind, name, annotations and edge fields; the properties their
\* number, order, names and annotations.
C21_ResolutionChangesTypesOnly ==
    vpc \notin {"idle", "start"} =>
        /\ Len(documents) = Len(Received)
        /\ \A i \in 1..Len(Received) :
              /\ documents[i].key = Received[i].key
              /\ documents[i].value.namespace = Received[i].value.namespace
              /\ documents[i].value.imports = Received[i].value.imports
              /\ Len(documents[i].value.declarations) = Len(Received[i].value.declarations)
              /\ \A j \in 1..Len(Received[i].value.declarations) :
                    /\ OtherFields(documents[i].value.declarations[j])
                          = OtherFields(Received[i].value.declarations[j])
                    /\ PropertyFrame(documents[i].value.declarations[j].properties)
                          = PropertyFrame(Received[i].value.declarations[j].properties)
\* the pass changed the type of a property that carries an annotation
C21_AnnotatedPropertyResolved ==
    /\ vpc \notin {"idle", "start"}
    /\ \E p \in PropertySites :
          /\ ResolvedType(p) # DeclaredType(p)
          /\ ReceivedOwner(p).properties[p[3]].annotations # <<>>

\* the call of edge_decl has ended, by a return or by an exception
EdgeBuilt == call.op = "edge_decl" /\ outcome # NoResult
Unresolvable(item) == _flatten_first(item) = PyNone

\* C22: when the source or the target of an edge cannot be normalized to a
\* string, edge_decl fails with an error, with or without a current namespace:
\* it never returns an EdgeDeclaration.
C22_UnresolvableEndpointFails ==
    (EdgeBuilt /\ (Unresolvable(call.source_node) \/ Unresolvable(call.target_node))) =>
        ~outcome.returned

(***************************************************************************)
(* Claims about the command line and the generation step.                  *)
(***************************************************************************)
PhasesInvoked == SelectSeq(invoked, LAMBDA e : e.phase \in {"load", "validate", "run_generation"})
PhaseRank(phase) == CASE phase = "load" -> 1 [] phase = "validate" -> 2 [] OTHER -> 3
Ran(phase) == \E i \in 1..Len(invoked) : invoked[i].phase = phase
Succeeded(phase) == \E i \in 1..Len(invoked) : invoked[i] = Event(phase, "ok")
Failed(phase) == \E i \in 1..Len(invoked) : invoked[i].phase = phase /\ invoked[i].result # "ok"

\* C23: the phases run in the order load, validate, generate, each at most once;
\* validation runs only after a load without errors; generation only after a
\* load without errors and, unless --skip-validation is given, a validation
\* without errors; a run whose phase failed exits with a non-zero code.
C23_PhasesInOrderAndStopOnFailure ==
    /\ \A i, j \in 1..Len(PhasesInvoked) :
          i < j => PhaseRank(PhasesInvoked[i].phase) < PhaseRank(PhasesInvoked[j].phase)
    /\ Ran("validate") => Succeeded("load")
    /\ Ran("run_generation") =>
          /\ Succeeded("load")
          /\ call.skip_validation \/ Succeeded("validate")
    /\ (cli_pc = "exited" /\ \E phase \in {"load", "validate", "run_generation"} : Failed(phase))
          => exit_code > 0
    /\ (\E phase \in {"load", "validate"} : Failed(phase)) => cli_pc = "exited"
\* a generate run stopped by validation errors, with a non-zero exit and no generation
C23_GenerationStoppedByValidation ==
    /\ cli_pc = "exited"
    /\ call.command = "generate"
    /\ invoked = <<Event("load", "ok"), Event("validate", "errors")>>
    /\ exit_code = 1

GenerationEnded == cli_pc \in {"generated", "exited"} /\ Ran("run_generation")
PluginSteps == {"makedirs", "instantiate", "generate"}

\* C24: what a step of the plugin raises leaves run_generation as it was raised;
\* for a name that is not registered run_generation raises ValueError naming
\* the plugin, and has neither made the output directory nor instantiated a plugin.
C24_PluginExceptionsPropagate ==
    GenerationEnded =>
        IF call.generator_name \in call.plugins
        THEN /\ \A i \in 1..Len(invoked) :
                  (invoked[i].phase \in PluginSteps /\ invoked[i].result # "ok") =>
                      propagated = [type |-> invoked[i].result, origin |-> invoked[i].phase,
                                    message |-> ""]
             /\ (\A step \in PluginSteps : ~Failed(step)) => propagated = NoException
        ELSE /\ propagated.type = "ValueError"
             /\ propagated.message = call.generator_name
             /\ \A step \in PluginSteps : ~Ran(step)
\* the plugin's generate raised RuntimeError and run_generation passed it on
C24_GenerateRaised ==
    /\ GenerationEnded
    /\ Ran("instantiate")
    /\ \E i \in 1..Len(invoked) : invoked[i] = Event("generate", "RuntimeError")
    /\ propagated.type = "RuntimeError"

(***************************************************************************)
(* Claims about reused instances.                                          *)
(***************************************************************************)
\* C25: no state survives from one run to the next: a second load on the same
\* AstLoader starts with an empty map, error list and in-progress set, a second
\* validate on the same Validator collects into an empty error list and empty
\* tables, and the second run ends as the first run, made on a fresh instance
\* with the same input, ended.
C25_NoStateSurvives ==
    /\ (call.op = "load" /\ stack = <<Frame(root)>>) =>
          loaded_asts = <<>> /\ errors = <<>> /\ processing = {}
    /\ (call.op = "load" /\ pc \in {"done", "raised"}) => LoadResult = outcome.value
    /\ (call.op = "validate" /\ vpc = "collect") =>
          /\ validation_errors = <<>>
          /\ defined_types = <<>> /\ defined_nodes = <<>> /\ defined_annotations = <<>>
    /\ (call.op = "validate" /\ vpc \in {"returned", "raised"}) => ValidateResult = outcome.value
\* a second load has ended on a loader whose first load left errors and a map
C25_SecondLoadAfterErrors ==
    /\ call.op = "load"
    /\ pc = "done"
    /\ outcome.value.errors # <<>>
    /\ outcome.value.loaded_asts # <<>>
\* a second validate has returned on a Validator whose first run left errors and tables
C25_SecondValidateAfterErrors ==
    /\ call.op = "validate"
    /\ vpc = "returned"
    /\ outcome.value.errors # <<>>
    /\ outcome.value.defined_nodes # <<>>

(***************************************************************************)
(* Claims about what a run without errors guarantees.                      *)
(***************************************************************************)
\* the documents the imports of doc match, as _get_available_types matches them
ImportedBy(doc) ==
    {i \in 1..Len(documents) :
        \E k \in 1..Len(doc.imports) :
            LET ns == IF documents[i].value.namespace # NoNamespace
                      THEN str(documents[i].value.namespace) ELSE <<>>
            IN  endswith(lower(ns), lower(simple_name(doc.imports[k])))}
\* the full names of the type declarations of a document
FullTypeNames(doc) ==
    {str(doc.declarations[j].name) :
        j \in {n \in 1..Len(doc.declarations) : doc.declarations[n].kind = "TypeDeclaration"}}
\* the full names of the types local to, or imported by, document i
TypesInScope(i) ==
    FullTypeNames(documents[i].value)
        \cup UNION {FullTypeNames(documents[m].value) : m \in ImportedBy(documents[i].value)}

\* C26: when validate returns no errors, the resolved type of every property is
\* the full qualified name of a type declared in, or imported by, its document.
C26_NoErrorsMeansTypesDeclared ==
    (Returned /\ validation_errors = <<>>) =>
        \A p \in PropertySites : str(AsQualifiedName(ResolvedType(p))) \in TypesInScope(p[1])

\* the names, simple and full, of the nodes local to, or imported by, document i
NodesInScope(i) ==
    NamesOf(documents[i].value.declarations, "NodeDeclaration")
        \cup UNION {NamesOf(documents[m].value.declarations, "NodeDeclaration") :
                        m \in ImportedBy(documents[i].value)}

\* C27: node availability is per document: in a run that returns, an edge
\* endpoint that names no node of the edge's own document nor of a document
\* matched by one of its imports leaves an undefined-node error for that endpoint.
C27_NodesAvailablePerDocument ==
    Returned =>
        \A s \in EdgeSites :
            /\ str(DeclarationAt(s).source_node) \notin NodesInScope(s[1]) =>
                  \E i \in ErrorsNamed("Undefined source node") :
                      ReportsEndpoint(i, s, DeclarationAt(s).source_node)
            /\ str(DeclarationAt(s).target_node) \notin NodesInScope(s[1]) =>
                  \E i \in ErrorsNamed("Undefined target node") :
                      ReportsEndpoint(i, s, DeclarationAt(s).target_node)

\* _load_recursive is being entered: an activation stands before its first check
Entered == pc = "running" /\ stack # <<>> /\ Top.phase = "enter"

RequestsFor(q) == Cardinality(ImportsOf(q)) + (IF q = root THEN 1 ELSE 0)
\* the load errors that report the failed read or parse of file q
LoadErrorsOf(q) ==
    {k \in 1..Len(errors) :
        errors[k].message = "Error processing file" /\ errors[k].source_path = q}

ReferenceMessages ==
    {"Unknown type", "Unknown type in annotation parameter", "Unknown annotation",
     "Undefined source node", "Undefined target node"}
ReferenceErrors(errs) ==
    {errs[k] : k \in {j \in 1..Len(errs) : errs[j].message.text \in ReferenceMessages}}

\* C29: reference validation does not depend on the order of declarations: a
\* property type, edge endpoint or annotation may refer to a declaration that comes
\* later, and a run on the same documents with the declarations of one document
\* permuted ends with the same set of reference errors.
C29_ReferenceErrorsOrderFree ==
    (call.op = "validate_permuted" /\ Ended) =>
        /\ vpc = outcome.value.ended
        /\ ReferenceErrors(validation_errors) = ReferenceErrors(outcome.value.errors)

====
